---- MODULE Spec2Model ----
(***************************************************************************)
(* Apex Inspector: the DevTools page adapter (devtools.js) that forwards   *)
(* finished network exchanges to the panel, and the panel's message        *)
(* handler (DevtoolsPanel.tsx, handleMessage) that decodes each exchange   *)
(* into call records appended to the call log.                             *)
(*                                                                         *)
(* JavaScript values are pairs <<tag, payload>>; objects keep their keys   *)
(* in insertion order as a sequence of <<key, value>> pairs. Strings are   *)
(* TLA+ strings, searched and cut character by character.                  *)
(***************************************************************************)
EXTENDS Integers, Sequences, FiniteSets, TLC

\* ---------------------------------------------------------------- bounds
\* number of exchanges the host completes in one behaviour of Spec
MaxExchanges == 2
\* number of exchanges in the specifications that study one normalizer
MaxCalls == 1
\* the millisecond clock runs from 0 to MaxTime
MaxTime == 1
\* number of save calls of the settings pages in one behaviour
MaxSaves == 2

\* ------------------------------------------------------- JavaScript values
Undef == <<"undef", "">>
Null == <<"null", "">>
Str(s) == <<"str", s>>
Num(n) == <<"num", n>>
Bool(b) == <<"bool", b>>
Arr(s) == <<"arr", s>>
\* an object literal: a sequence of <<key, value>> pairs with distinct keys
Obj(pairs) == <<"obj", pairs>>
EmptyObj == Obj(<<>>)

IsString(v) == v[1] = "str"
IsArray(v) == v[1] = "arr"
\* typeof v === 'object' (true of null and of arrays)
TypeofObject(v) == v[1] \in {"obj", "arr", "null"}
\* v && typeof v === 'object'
IsObjectLike(v) == v[1] \in {"obj", "arr"}

Truthy(v) ==
  CASE v[1] = "undef" -> FALSE
    [] v[1] = "null" -> FALSE
    [] v[1] = "str" -> v[2] # ""
    [] v[1] = "num" -> v[2] # 0
    [] v[1] = "bool" -> v[2]
    [] OTHER -> TRUE

\* a || b
OrElse(a, b) == IF Truthy(a) THEN a ELSE b

\* 'k' in o, for a plain object
Has(o, k) == o[1] = "obj" /\ \E i \in 1..Len(o[2]) : o[2][i][1] = k

\* o.k ; undefined when o is not a plain object or has no such key
Get(o, k) ==
  IF Has(o, k)
  THEN o[2][CHOOSE i \in 1..Len(o[2]) : o[2][i][1] = k][2]
  ELSE Undef

\* Object.keys(o), in insertion order
Keys(o) == IF o[1] = "obj" THEN [i \in 1..Len(o[2]) |-> o[2][i][1]] ELSE <<>>

\* a[i] with a zero-based index
At(a, i) == IF a[1] = "arr" /\ i + 1 \in 1..Len(a[2]) THEN a[2][i + 1] ELSE Undef

\* a.length
Length(a) == IF a[1] = "arr" THEN Len(a[2]) ELSE 0

\* the pairs an object spread { ...v } copies: the own keys of a plain
\* object, the indices of an array or of a string
SpreadPairs(v) ==
  IF v[1] = "obj" THEN v[2]
  ELSE IF v[1] = "arr" THEN [i \in 1..Len(v[2]) |-> <<ToString(i - 1), v[2][i]>>]
  ELSE IF v[1] = "str"
  THEN [i \in 1..Len(v[2]) |-> <<ToString(i - 1), <<"str", SubSeq(v[2], i, i)>>>>]
  ELSE <<>>

RECURSIVE PutAll(_, _)
\* assign the pairs q one by one into the pair list p: an existing key keeps
\* its position and takes the new value, a new key is appended
PutAll(p, q) ==
  IF q = <<>> THEN p
  ELSE LET k == q[1][1]
           hit == {i \in 1..Len(p) : p[i][1] = k}
           p1 == IF hit = {}
                 THEN Append(p, q[1])
                 ELSE [i \in 1..Len(p) |-> IF i \in hit THEN q[1] ELSE p[i]]
       IN PutAll(p1, Tail(q))

\* { ...a, ...b }
Spread2(a, b) == Obj(PutAll(SpreadPairs(a), SpreadPairs(b)))

\* String(v) for the values the handler converts
JsString(v) ==
  CASE v[1] = "str" -> v[2]
    [] v[1] = "num" -> ToString(v[2])
    [] v[1] = "bool" -> IF v[2] THEN "true" ELSE "false"
    [] v[1] = "null" -> "null"
    [] v[1] = "undef" -> "undefined"
    [] v[1] = "obj" -> "[object Object]"
    [] OTHER -> ""

\* ------------------------------------------------------------- strings
\* s.indexOf(p) + 1 ; 0 when p does not occur in s
IndexOf(s, p) ==
  LET I == {i \in 1..(Len(s) - Len(p) + 1) : SubSeq(s, i, i + Len(p) - 1) = p}
  IN IF I = {} THEN 0 ELSE CHOOSE i \in I : \A j \in I : i <= j

\* s.includes(p)
Includes(s, p) == \E i \in 1..(Len(s) - Len(p) + 1) : SubSeq(s, i, i + Len(p) - 1) = p

\* s.startsWith(p)
StartsWith(s, p) == Len(s) >= Len(p) /\ SubSeq(s, 1, Len(p)) = p

\* s.substring(0, n)
Substring0(s, n) == IF Len(s) <= n THEN s ELSE SubSeq(s, 1, n)

\* s.split('/')[1] : the text between the first and the second '/',
\* undefined when s has no '/'
SplitSlash1(s) ==
  LET i == IndexOf(s, "/")
  IN IF i = 0 THEN Undef
     ELSE LET rest == SubSeq(s, i + 1, Len(s))
              j == IndexOf(rest, "/")
          IN Str(IF j = 0 THEN rest ELSE SubSeq(rest, 1, j - 1))

IdKeyAlphabet == "abcdefghijklmnopqrstuvwxyzABCDEFGHIJKLMNOPQRSTUVWXYZ0123456789_-"
IdKeyChars == {SubSeq(IdKeyAlphabet, i, i) : i \in 1..Len(IdKeyAlphabet)}

\* /^[a-zA-Z0-9_-]{10,}$/.test(key)
MatchesIdKey(key) ==
  Len(key) >= 10 /\ \A i \in 1..Len(key) : SubSeq(key, i, i) \in IdKeyChars

UpperAlphabet == "ABCDEFGHIJKLMNOPQRSTUVWXYZ"
LowerAlphabet == "abcdefghijklmnopqrstuvwxyz"

UpperChars == {SubSeq(UpperAlphabet, i, i) : i \in 1..Len(UpperAlphabet)}

RECURSIVE LowerCased(_)
\* s with every upper-case letter replaced by its lower-case letter
LowerCased(s) ==
  IF Len(s) = 0 THEN ""
  ELSE IF Len(s) = 1
  THEN IF s \notin UpperChars THEN s
       ELSE LET i == IndexOf(UpperAlphabet, s) IN SubSeq(LowerAlphabet, i, i)
  ELSE LET h == Len(s) \div 2
       IN LowerCased(SubSeq(s, 1, h)) \o LowerCased(SubSeq(s, h + 1, Len(s)))

\* s.toLowerCase()
ToLowerCase(s) ==
  IF \A i \in 1..Len(s) : SubSeq(s, i, i) \notin UpperChars THEN s ELSE LowerCased(s)

WhiteSpace == {" ", "\t", "\n", "\r"}

RECURSIVE TrimStart(_)
TrimStart(s) ==
  IF s # "" /\ SubSeq(s, 1, 1) \in WhiteSpace THEN TrimStart(SubSeq(s, 2, Len(s))) ELSE s

RECURSIVE TrimEnd(_)
TrimEnd(s) ==
  IF s # "" /\ SubSeq(s, Len(s), Len(s)) \in WhiteSpace
  THEN TrimEnd(SubSeq(s, 1, Len(s) - 1)) ELSE s

\* s.trim()
Trim(s) == TrimEnd(TrimStart(s))

RECURSIVE RunOutside(_, _)
\* the longest prefix of s made of characters outside the set stop
RunOutside(s, stop) ==
  IF s = "" \/ SubSeq(s, 1, 1) \in stop THEN ""
  ELSE SubSeq(s, 1, 1) \o RunOutside(SubSeq(s, 2, Len(s)), stop)

\* s.match(/<lit>([^<stop>]+)/): the captured group of the first match,
\* undefined when the pattern does not match
MatchAfter(s, lit, stop) ==
  LET I == {i \in 1..(Len(s) - Len(lit)) :
              /\ SubSeq(s, i, i + Len(lit) - 1) = lit
              /\ SubSeq(s, i + Len(lit), i + Len(lit)) \notin stop}
  IN IF I = {} THEN Undef
     ELSE LET i == CHOOSE k \in I : \A j \in I : k <= j
          IN Str(RunOutside(SubSeq(s, i + Len(lit), Len(s)), stop))

RECURSIVE Stringify(_)
RECURSIVE StringifyItems(_, _)
RECURSIVE StringifyPairs(_, _)
\* JSON.stringify(v), for texts without characters that need escaping
Stringify(v) ==
  CASE v[1] = "str" -> "\"" \o v[2] \o "\""
    [] v[1] = "num" -> ToString(v[2])
    [] v[1] = "bool" -> (IF v[2] THEN "true" ELSE "false")
    [] v[1] = "arr" -> "[" \o StringifyItems(v[2], TRUE) \o "]"
    [] v[1] = "obj" -> "{" \o StringifyPairs(v[2], TRUE) \o "}"
    [] OTHER -> "null"
StringifyItems(items, first) ==
  IF items = <<>> THEN ""
  ELSE (IF first THEN "" ELSE ",") \o Stringify(Head(items))
         \o StringifyItems(Tail(items), FALSE)
StringifyPairs(pairs, first) ==
  IF pairs = <<>> THEN ""
  ELSE IF Head(pairs)[2][1] = "undef" THEN StringifyPairs(Tail(pairs), first)
  ELSE (IF first THEN "" ELSE ",") \o "\"" \o Head(pairs)[1] \o "\":"
         \o Stringify(Head(pairs)[2]) \o StringifyPairs(Tail(pairs), FALSE)

\* ------------------------------------------------------------ body texts
\* A body text is <<kind, payload>>: the JSON serialisation of a value, a
\* form-encoded list of <<field, text>> pairs, a non-empty text that is
\* neither, the empty string, or no text at all (undefined).
TextJson(v) == <<"json", v>>
TextForm(fields) == <<"form", fields>>
TextBad == <<"bad", "">>
TextEmpty == <<"empty", "">>
NoText == <<"none", "">>

\* a text is truthy unless it is undefined or ''
TextTruthy(txt) == txt[1] \notin {"none", "empty"}

\* JSON.parse(txt) returns (does not throw a SyntaxError)
JsonParses(txt) == txt[1] = "json"
\* the value JSON.parse(txt) returns
JsonValue(txt) == txt[2]

\* new URLSearchParams(txt || '').get(name): the first field of that name
FormGet(txt, name) ==
  IF txt[1] = "form" /\ \E i \in 1..Len(txt[2]) : txt[2][i][1] = name
  THEN LET I == {i \in 1..Len(txt[2]) : txt[2][i][1] = name}
       IN txt[2][CHOOSE i \in I : \A j \in I : i <= j][2]
  ELSE NoText

FormMime == "application/x-www-form-urlencoded"
JsonMime == "application/json"

\* a variant that falls back on the raw body of a form-encoded request
ParseRequest_RawFallback(x) ==
  LET message == FormGet(x.text, "message")
  IN IF IsString(x.mimeType) /\ Includes(x.mimeType[2], FormMime)
        /\ TextTruthy(message) /\ JsonParses(message)
     THEN JsonValue(message)
     ELSE IF TextTruthy(x.text) /\ JsonParses(x.text) THEN JsonValue(x.text) ELSE Null

\* reqPostData: the decoded request body, null when there is none or it
\* does not parse
ParseRequest(x) ==
  IF IsString(x.mimeType) /\ Includes(x.mimeType[2], FormMime)
  THEN LET message == FormGet(x.text, "message")
       IN IF TextTruthy(message) /\ JsonParses(message)
          THEN JsonValue(message) ELSE Null
  ELSE IF TextTruthy(x.text) /\ JsonParses(x.text)
       THEN JsonValue(x.text) ELSE Null

\* response.headers.find(h => h.name.toLowerCase() === 'content-type')?.value
ContentType(headers) ==
  LET I == {i \in 1..Len(headers) : ToLowerCase(headers[i][1]) = "content-type"}
  IN IF I = {} THEN Undef
     ELSE Str(headers[CHOOSE i \in I : \A j \in I : i <= j][2])

\* a variant that parses the response body whatever its declared type
ParseResponse_AnyType(x) ==
  IF TextTruthy(x.body) /\ JsonParses(x.body) THEN JsonValue(x.body) ELSE Null

\* resJson: the decoded response body, null unless the response declares
\* JSON and its text parses
ParseResponse(x) ==
  LET contentType == ContentType(x.headers)
  IN IF TextTruthy(x.body) /\ IsString(contentType)
        /\ Includes(contentType[2], JsonMime) /\ JsonParses(x.body)
     THEN JsonValue(x.body) ELSE Null

\* --------------------------------------------------- class-name mappings
\* a Map is a sequence of <<key, value>> pairs with distinct keys
MapHas(m, k) == \E i \in 1..Len(m) : m[i][1] = k
MapGet(m, k) == m[CHOOSE i \in 1..Len(m) : m[i][1] = k][2]

RECURSIVE MapFromRecords(_, _)
\* records.forEach: each record with a non-empty string Id and Name is set
\* under its Id and, for an Id longer than 15 characters, under its first
\* 15 characters; a null record raises and ends the loop
MapFromRecords(records, m) ==
  IF records = <<>> THEN m
  ELSE LET record == Head(records)
           Id == Get(record, "Id")
           Name == Get(record, "Name")
       IN IF record[1] \in {"null", "undef"} THEN m
          ELSE IF Truthy(Id) /\ Truthy(Name) /\ IsString(Id) /\ IsString(Name)
               THEN MapFromRecords(Tail(records),
                      PutAll(m, <<<<Id[2], Name[2]>>>> \o
                                (IF Len(Id[2]) > 15
                                 THEN <<<<Substring0(Id[2], 15), Name[2]>>>>
                                 ELSE <<>>)))
               ELSE MapFromRecords(Tail(records), m)

\* a variant that keys the mapping by the full Id alone
parseApexClassMappings_FullIdOnly(apexClassMappingsJson) ==
  IF ~TextTruthy(apexClassMappingsJson) \/ ~JsonParses(apexClassMappingsJson)
  THEN <<>>
  ELSE LET records == Get(Get(JsonValue(apexClassMappingsJson), "result"), "records")
           usable(record) == /\ Truthy(Get(record, "Id")) /\ IsString(Get(record, "Id"))
                             /\ Truthy(Get(record, "Name")) /\ IsString(Get(record, "Name"))
       IN IF IsArray(records)
          THEN LET kept == SelectSeq(records[2], usable)
               IN [i \in 1..Len(kept) |-> <<Get(kept[i], "Id")[2], Get(kept[i], "Name")[2]>>]
          ELSE <<>>

\* function parseApexClassMappings(apexClassMappingsJson: string): Map<string, string>
parseApexClassMappings(apexClassMappingsJson) ==
  IF ~TextTruthy(apexClassMappingsJson) \/ ~JsonParses(apexClassMappingsJson)
  THEN <<>>
  ELSE LET records == Get(Get(JsonValue(apexClassMappingsJson), "result"), "records")
       IN IF IsArray(records) THEN MapFromRecords(records[2], <<>>) ELSE <<>>

\* ------------------------------------------------------------- records
\* request.requestId || request.request.url
ExchangeId(x) == JsString(OrElse(x.requestId, Str(x.url)))

\* request.startedDateTime ? new Date(request.startedDateTime).getTime() : Date.now()
\* (startedDateTime is held as its epoch value, 0 when the field is absent)
Timestamp(x, t) == IF x.startedDateTime # 0 THEN x.startedDateTime ELSE t

\* a variant that measures latency with the handler's clock
ApexAction_ClockLatency(id, t, apexClass, method, x, request, response, rawRequest, rawResponse, context, resJson, error, boxcarId) ==
  [id |-> id,
   timestamp |-> Timestamp(x, t),
   apexClass |-> apexClass,
   method |-> method,
   latency |-> t,
   request |-> request,
   response |-> response,
   rawRequest |-> rawRequest,
   rawResponse |-> rawResponse,
   context |-> context,
   network |-> [requestId |-> ExchangeId(x), url |-> x.url, latency |-> t],
   fullResponse |-> resJson,
   fullRequest |-> x,
   error |-> error,
   boxcarId |-> boxcarId]

\* one ApexAction entry of the call log
ApexAction(id, t, apexClass, method, x, request, response, rawRequest, rawResponse, context, resJson, error, boxcarId) ==
  [id |-> id,
   timestamp |-> Timestamp(x, t),
   apexClass |-> apexClass,
   method |-> method,
   latency |-> x.time,
   request |-> request,
   response |-> response,
   rawRequest |-> rawRequest,
   rawResponse |-> rawResponse,
   context |-> context,
   network |-> [requestId |-> ExchangeId(x), url |-> x.url, latency |-> x.time],
   fullResponse |-> resJson,
   fullRequest |-> x,
   error |-> error,
   boxcarId |-> boxcarId]

\* a variant that leaves the clock out of the token
generateBoxcarId_NoClock(rnd, t) == Str("boxcar-" \o rnd)

\* 'boxcar-' + Math.random().toString(36).slice(2) + Date.now().toString(36)
\* rnd is the text of the random draw; the clock stays below 10, where base
\* 36 and base 10 write the same digit
generateBoxcarId(rnd, t) == Str("boxcar-" \o rnd \o ToString(t))

\* the outcome of one run of the handler: the normalizer that ran, the
\* records it appended, and whether an exception reached the outer catch
Outcome(shape, recs, threw) == [shape |-> shape, recs |-> recs, threw |-> threw]

\* the indices 1..n as a sequence
Indices(n) == [i \in 1..n |-> i]

\* --------------------------------------------------- WebruntimeSingle
WebruntimeHelp(originalApexClass) ==
  Obj(<< <<"originalClassName", originalApexClass>>,
         <<"note", Str("Class name is obfuscated in Community Cloud. Configure Apex Class Mappings in settings to see real names.")>>,
         <<"needsMapping", Bool(TRUE)>> >>)

\* the error text read at the root of a webruntime response
WebruntimeError(webResponse) ==
  IF Truthy(Get(webResponse, "error")) \/ Truthy(Get(webResponse, "errors"))
       \/ Truthy(Get(webResponse, "isError"))
  THEN IF IsString(Get(webResponse, "error")) THEN Get(webResponse, "error")
       ELSE IF IsArray(Get(webResponse, "errors")) /\ Length(Get(webResponse, "errors")) > 0
            THEN Str(JsString(At(Get(webResponse, "errors"), 0)))
            ELSE Str("Webruntime API error occurred")
  ELSE Null

NormalizeWebruntime(x, reqPostData, resJson, apexClassMappings, t) ==
  LET originalApexClass == OrElse(Get(reqPostData, "classname"), Str("[Unknown Class]"))
      apexMethod == OrElse(Get(reqPostData, "method"), Str("[Unknown Method]"))
      namespace == Get(reqPostData, "namespace")
  IN IF ~IsString(originalApexClass)
     THEN Outcome("WebruntimeSingle", <<>>, TRUE)   \* startsWith is not a function
     ELSE
       LET isObfuscated == StartsWith(originalApexClass[2], "@")
                             /\ Includes(originalApexClass[2], "/")
           idPart == SplitSlash1(originalApexClass[2])
           resolved == isObfuscated /\ Truthy(idPart) /\ MapHas(apexClassMappings, idPart[2])
           actualClassName ==
             IF ~isObfuscated THEN originalApexClass
             ELSE IF resolved THEN Str(MapGet(apexClassMappings, idPart[2]))
             ELSE OrElse(idPart, originalApexClass)
           helpTextInfo ==
             IF isObfuscated /\ ~resolved THEN WebruntimeHelp(originalApexClass) ELSE Null
           fullClassName ==
             IF Truthy(namespace)
             THEN Str(JsString(namespace) \o "." \o actualClassName[2])
             ELSE actualClassName
           responseObj == IF IsObjectLike(resJson) THEN resJson ELSE EmptyObj
           error == IF IsObjectLike(resJson) THEN WebruntimeError(resJson) ELSE Null
       IN Outcome("WebruntimeSingle",
            << ApexAction("webruntime-" \o ExchangeId(x) \o "-" \o ToString(t), t,
                 fullClassName, apexMethod, x,
                 OrElse(Get(reqPostData, "params"), EmptyObj),
                 responseObj, reqPostData, OrElse(resJson, EmptyObj),
                 OrElse(helpTextInfo, EmptyObj), resJson, error, Undef) >>,
            FALSE)

\* --------------------------------------------------------- VfRemoting
\* a variant that reports the generic text for every error
VfError_Generic(vfRespObj) ==
  IF ~Truthy(Get(vfRespObj, "error")) THEN Null
  ELSE Str("VisualForce Remoting error occurred")

\* the error text of one VF response object
VfError(vfRespObj) ==
  LET e == Get(vfRespObj, "error")
  IN IF ~Truthy(e) THEN Null
     ELSE IF IsString(e) THEN e
     ELSE IF TypeofObject(e) /\ Truthy(Get(e, "message")) /\ IsString(Get(e, "message"))
          THEN Get(e, "message")
          ELSE Str("VisualForce Remoting error occurred")

VfRecord(x, vfReq, idx, vfResponse, resJson, boxcarId, t) ==
  ApexAction("vfremoting-" \o ExchangeId(x) \o "-" \o ToString(idx) \o "-" \o ToString(t), t,
    OrElse(Get(vfReq, "action"), Str("[Unknown Class]")),
    OrElse(Get(vfReq, "method"), Str("[Unknown Method]")),
    x,
    OrElse(Get(vfReq, "data"), EmptyObj),
    IF IsObjectLike(vfResponse) THEN vfResponse ELSE EmptyObj,
    vfReq,
    OrElse(vfResponse, EmptyObj),
    Obj(<< <<"isVfRemoting", Bool(TRUE)>>, <<"tid", Get(vfReq, "tid")>>,
           <<"requestType", Get(vfReq, "type")>> >>),
    resJson,
    IF IsObjectLike(vfResponse) THEN VfError(vfResponse) ELSE Null,
    boxcarId)

NormalizeVfRemoting(x, reqPostData, resJson, t, rnd) ==
  LET single == ~IsArray(reqPostData)
      matches == Truthy(Get(reqPostData, "action")) /\ Truthy(Get(reqPostData, "method"))
                   /\ Get(reqPostData, "type") = Str("rpc")
      vfRequests == IF IsArray(reqPostData) THEN reqPostData[2] ELSE <<reqPostData>>
      vfResponses == IF IsArray(resJson) THEN resJson
                     ELSE IF IsObjectLike(resJson) THEN Arr(<<resJson>>)
                     ELSE Arr(<<>>)
      boxcarId == IF Len(vfRequests) > 1 THEN generateBoxcarId(rnd, t) ELSE Undef
      idxs == SelectSeq(Indices(Len(vfRequests)), LAMBDA i : IsObjectLike(vfRequests[i]))
  IN IF single /\ ~matches
     THEN Outcome("VfRemoting", <<>>, FALSE)
     ELSE Outcome("VfRemoting",
            [k \in 1..Len(idxs) |->
               VfRecord(x, vfRequests[idxs[k]], idxs[k] - 1,
                        At(vfResponses, idxs[k] - 1), resJson, boxcarId, t)],
            FALSE)

\* ---------------------------------------------------------- AuraBatch
ApexDescriptor == "aura://ApexActionController/ACTION$execute"

\* a variant that looks at the response entry before the request action
getApexActionUniqueId_ResponseFirst(action, response, perfSummary) ==
  LET keys == Keys(perfSummary)
      K == {i \in 1..Len(keys) : MatchesIdKey(keys[i])}
  IN IF IsObjectLike(response) /\ Has(response, "id") /\ IsString(Get(response, "id"))
     THEN Get(response, "id")
     ELSE IF IsObjectLike(response) /\ Has(response, "actionId") /\ IsString(Get(response, "actionId"))
     THEN Get(response, "actionId")
     ELSE IF IsObjectLike(action) /\ Has(action, "id") /\ IsString(Get(action, "id"))
     THEN Get(action, "id")
     ELSE IF IsObjectLike(action) /\ Has(action, "actionId") /\ IsString(Get(action, "actionId"))
     THEN Get(action, "actionId")
     ELSE IF IsObjectLike(perfSummary) /\ K # {}
     THEN Str(keys[CHOOSE i \in K : \A j \in K : i <= j])
     ELSE Undef

\* Helper to extract a unique action id from the action or response/perfSummary;
\* undefined when none is found
getApexActionUniqueId(action, response, perfSummary) ==
  LET keys == Keys(perfSummary)
      K == {i \in 1..Len(keys) : MatchesIdKey(keys[i])}
  IN IF IsObjectLike(action) /\ Has(action, "id") /\ IsString(Get(action, "id"))
     THEN Get(action, "id")
     ELSE IF IsObjectLike(action) /\ Has(action, "actionId") /\ IsString(Get(action, "actionId"))
     THEN Get(action, "actionId")
     ELSE IF IsObjectLike(response) /\ Has(response, "id") /\ IsString(Get(response, "id"))
     THEN Get(response, "id")
     ELSE IF IsObjectLike(response) /\ Has(response, "actionId") /\ IsString(Get(response, "actionId"))
     THEN Get(response, "actionId")
     ELSE IF IsObjectLike(perfSummary) /\ K # {}
     THEN Str(keys[CHOOSE i \in K : \A j \in K : i <= j])
     ELSE Undef

UnknownApexError == "Unknown Apex error"

\* message and details taken from the first element of an error(s) array
ErrorFromElement(errorObj) ==
  IF TypeofObject(errorObj) /\ errorObj # Null
  THEN [msg |-> IF Has(errorObj, "message") /\ IsString(Get(errorObj, "message"))
                THEN Get(errorObj, "message")[2] ELSE UnknownApexError,
        details |-> Spread2(EmptyObj, errorObj)]
  ELSE [msg |-> JsString(errorObj),
        details |-> Obj(<< <<"message", Str(JsString(errorObj))>> >>)]

\* error detection on a response entry whose state is ERROR: the message
\* and the details that are flattened into the result
AuraError(rawRespObj) ==
  LET error == Get(rawRespObj, "error")
      errors == Get(rawRespObj, "errors")
  IN IF IsArray(error) /\ Length(error) > 0 THEN ErrorFromElement(At(error, 0))
     ELSE IF IsArray(errors) /\ Length(errors) > 0 THEN ErrorFromElement(At(errors, 0))
     ELSE IF Truthy(error) /\ TypeofObject(error)
     THEN [msg |-> IF Has(error, "message") /\ IsString(Get(error, "message"))
                   THEN Get(error, "message")[2] ELSE UnknownApexError,
           details |-> Spread2(EmptyObj, error)]
     ELSE IF IsString(error)
     THEN [msg |-> error[2], details |-> Obj(<< <<"message", error>> >>)]
     ELSE [msg |-> UnknownApexError,
           details |-> Obj(<< <<"message", Str(UnknownApexError)>> >>)]

\* the entry is processed by the Aura loop
AuraQualifies(action) ==
  TypeofObject(action) /\ action # Null /\ Get(action, "descriptor") = Str(ApexDescriptor)

AuraRecord(x, action, idx, resJson, boxcarId, t) ==
  LET paramsObj == OrElse(Get(action, "params"), EmptyObj)
      apexClass == IF IsString(Get(paramsObj, "classname")) THEN Get(paramsObj, "classname")
                   ELSE IF IsString(Get(paramsObj, "className")) THEN Get(paramsObj, "className")
                   ELSE Str("[Unknown Class]")
      apexMethod == IF IsString(Get(paramsObj, "method")) THEN Get(paramsObj, "method")
                    ELSE IF IsString(Get(paramsObj, "methodName")) THEN Get(paramsObj, "methodName")
                    ELSE Str("[Unknown Method]")
      actionResponse == At(Get(resJson, "actions"), idx)
      returnValue == IF IsObjectLike(actionResponse)
                     THEN Get(actionResponse, "returnValue") ELSE EmptyObj
      returnValueObj == IF IsObjectLike(returnValue) THEN returnValue ELSE EmptyObj
      rawResp == OrElse(actionResponse, EmptyObj)
      failed == IsObjectLike(rawResp) /\ Get(rawResp, "state") = Str("ERROR")
      err == AuraError(rawResp)
      namespace == Get(paramsObj, "namespace")
      id == OrElse(getApexActionUniqueId(action, actionResponse, Get(resJson, "perfSummary")),
                   Str(ExchangeId(x) \o "-" \o ToString(idx)))[2]
  IN IF IsString(apexClass) /\ IsString(apexMethod)
     THEN ApexAction(id, t,
            IF IsString(namespace) /\ Truthy(namespace)
            THEN Str(namespace[2] \o "." \o apexClass[2]) ELSE apexClass,
            apexMethod, x, paramsObj,
            IF failed THEN Spread2(err.details, returnValueObj) ELSE returnValueObj,
            action, rawResp,
            OrElse(Get(resJson, "context"), EmptyObj),
            resJson,
            IF failed THEN Str(err.msg) ELSE Null,
            boxcarId)
     ELSE ApexAction(id, t, Str("[Unparsed] ApexAction"), Str("[Unparsed] execute"), x,
            EmptyObj, EmptyObj, action, rawResp, EmptyObj, resJson,
            Str("Could not parse Apex class/method. See raw data."), boxcarId)

\* the generic entry for a request without an actions array
AuraFallbackRecord(x, reqPostData, resJson, t) ==
  ApexAction("fallback-" \o ExchangeId(x) \o "-" \o ToString(t), t,
    Str("[Unknown Format]"), Str("[Unknown]"), x,
    reqPostData, OrElse(resJson, EmptyObj), reqPostData, OrElse(resJson, EmptyObj),
    EmptyObj, resJson, Str("Could not parse request format. See raw data."), Undef)

\* a variant that pairs the k-th processed action with the k-th response entry
NormalizeAura_Compacted(x, reqPostData, resJson, t, rnd) ==
  LET actionsArr == Get(reqPostData, "actions")
      idxs == IF IsArray(actionsArr)
              THEN SelectSeq(Indices(Length(actionsArr)), LAMBDA i : AuraQualifies(actionsArr[2][i]))
              ELSE <<>>
      boxcarId == IF Len(idxs) > 1 THEN generateBoxcarId(rnd, t) ELSE Undef
  IN Outcome("AuraBatch",
       [k \in 1..Len(idxs) |-> AuraRecord(x, actionsArr[2][idxs[k]], k - 1, resJson, boxcarId, t)],
       FALSE)

NormalizeAura(x, reqPostData, resJson, t, rnd) ==
  LET actionsArr == Get(reqPostData, "actions")
  IN IF ~IsArray(actionsArr)
     THEN Outcome("AuraBatch", <<AuraFallbackRecord(x, reqPostData, resJson, t)>>, FALSE)
     ELSE
       LET boxcarId == IF Length(actionsArr) > 1 THEN generateBoxcarId(rnd, t) ELSE Undef
           idxs == SelectSeq(Indices(Length(actionsArr)),
                             LAMBDA i : AuraQualifies(actionsArr[2][i]))
       IN IF idxs # <<>> /\ resJson = Null
          THEN Outcome("AuraBatch", <<>>, TRUE)   \* resJsonObj.actions of null
          ELSE Outcome("AuraBatch",
                 [k \in 1..Len(idxs) |->
                    AuraRecord(x, actionsArr[2][idxs[k]], idxs[k] - 1, resJson, boxcarId, t)],
                 FALSE)

\* ------------------------------------------------------------ GraphQL
\* the query text located in the params of a GraphQL action
GraphqlQuery(params) ==
  LET queryInput == Get(params, "queryInput")
  IN IF TypeofObject(queryInput) /\ queryInput # Null
     THEN IF IsString(Get(queryInput, "query")) THEN Get(queryInput, "query")[2]
          ELSE "[Unknown Query]"
     ELSE IF IsString(Get(params, "query")) THEN Get(params, "query")[2]
     ELSE IF IsString(Get(params, "graphQL")) THEN Get(params, "graphQL")[2]
     ELSE IF IsString(Get(params, "gql")) THEN Get(params, "gql")[2]
     ELSE "[Unknown Query]"

GraphqlVariables(params) ==
  LET queryInput == Get(params, "queryInput")
      fromInput == IF IsObjectLike(queryInput) /\ IsObjectLike(Get(queryInput, "variables"))
                   THEN Get(queryInput, "variables") ELSE EmptyObj
  IN IF Len(SpreadPairs(fromInput)) = 0 /\ IsObjectLike(Get(params, "variables"))
     THEN Get(params, "variables") ELSE fromInput

GraphqlOperationType(graphqlQuery) ==
  IF StartsWith(ToLowerCase(Trim(graphqlQuery)), "mutation") THEN "mutation"
  ELSE IF StartsWith(ToLowerCase(Trim(graphqlQuery)), "subscription") THEN "subscription"
  ELSE "query"

GraphqlError(actionRespObj) ==
  LET error == Get(actionRespObj, "error")
      errorObj == At(error, 0)
  IN IF IsArray(error) /\ Length(error) > 0 /\ IsObjectLike(errorObj)
        /\ Has(errorObj, "message")
     THEN Str(JsString(Get(errorObj, "message")))
     ELSE Str("GraphQL error occurred")

\* a variant that gives every GraphQL record of an exchange one batch id
GraphqlRecord_Batched(x, action, idx, resJson, t) ==
  ApexAction("graphql-" \o ExchangeId(x) \o "-" \o ToString(idx) \o "-" \o ToString(t), t,
    Str("GraphQL"), Str("query"), x, EmptyObj, EmptyObj, action, EmptyObj, EmptyObj,
    resJson, Null, Str("boxcar-" \o ToString(t)))

GraphqlRecord(x, action, idx, resJson, t) ==
  LET paramsObj == OrElse(Get(action, "params"), EmptyObj)
      probed == IsObjectLike(paramsObj)
      graphqlQuery == IF probed THEN GraphqlQuery(paramsObj) ELSE "[Unknown Query]"
      graphqlVariables == IF probed THEN GraphqlVariables(paramsObj) ELSE EmptyObj
      operationType == IF probed THEN GraphqlOperationType(graphqlQuery) ELSE "query"
      actionsResponse == Get(resJson, "actions")
      actionResponse == At(actionsResponse, idx)
      hasResp == IsObjectLike(resJson) /\ IsArray(actionsResponse) /\ IsObjectLike(actionResponse)
      failed == hasResp /\ Get(actionResponse, "state") = Str("ERROR")
      returnValue == Get(actionResponse, "returnValue")
  IN ApexAction(
       "graphql-" \o ExchangeId(x) \o "-" \o ToString(idx) \o "-" \o ToString(t), t,
       Str("GraphQL"), Str(operationType), x,
       Obj(PutAll(<< <<"query", Str(graphqlQuery)>>, <<"variables", graphqlVariables>> >>,
                  SpreadPairs(paramsObj))),
       IF ~hasResp THEN EmptyObj
       ELSE IF failed THEN actionResponse
       ELSE IF IsObjectLike(returnValue) THEN returnValue ELSE actionResponse,
       action,
       IF IsArray(actionsResponse) THEN OrElse(actionResponse, EmptyObj) ELSE EmptyObj,
       Obj(<< <<"isGraphQL", Bool(TRUE)>>, <<"operationType", Str(operationType)>>,
              <<"queryLength", Num(Len(graphqlQuery))>> >>),
       resJson,
       IF failed THEN GraphqlError(actionResponse) ELSE Null,
       Undef)

NormalizeGraphQL(x, reqPostData, resJson, t) ==
  LET actionsArr == Get(reqPostData, "actions")
      idxs == SelectSeq(Indices(Length(actionsArr)),
                        LAMBDA i : IsObjectLike(actionsArr[2][i]))
  IN Outcome("GraphQL",
       [k \in 1..Len(idxs) |->
          GraphqlRecord(x, actionsArr[2][idxs[k]], idxs[k] - 1, resJson, t)],
       FALSE)

\* -------------------------------------------------------- UiRecordApi
RecordUiDescriptor ==
  "serviceComponent://ui.force.components.controllers.recordGlobalValueProvider.RecordUiController/ACTION$getRecordWithFields"

\* the JSON documents that occur as the text of a nested 'message' string
NestedMessages ==
  { Obj(<< <<"actions", Arr(<< Obj(<< <<"descriptor", Str(RecordUiDescriptor)>>,
                                      <<"params", Obj(<< <<"recordId", Str("001A")>> >>)>> >>) >>)>> >>),
    Null }

\* JSON.parse(s) of a string value returns (s is the text of a known document)
StringParses(s) == \E v \in NestedMessages : Stringify(v) = s
StringValue(s) == CHOOSE v \in NestedMessages : Stringify(v) = s

\* dataToCheck / dataToProcess: the request data, replaced by its parsed
\* 'message' string when it has one that parses
UiData(reqPostData) ==
  LET message == Get(reqPostData, "message")
  IN IF Truthy(message) /\ IsString(message) /\ StringParses(message[2])
     THEN StringValue(message[2]) ELSE reqPostData

\* Method 2: descriptor-based detection in the request data
UiDescriptorDetected(data) ==
  LET actions == Get(data, "actions")
      descriptor == Get(data, "descriptor")
  IN IF Truthy(actions) /\ IsArray(actions)
     THEN \E i \in 1..Length(actions) :
            /\ IsObjectLike(actions[2][i])
            /\ IsString(Get(actions[2][i], "descriptor"))
            /\ Includes(Get(actions[2][i], "descriptor")[2], "RecordUiController")
     ELSE IsString(descriptor) /\ Includes(descriptor[2], "RecordUiController")

\* evaluating isUiRecordApiCall raises: property read on a null dataToCheck
UiDetectThrows(url, reqPostData) ==
  Includes(url, "/aura") /\ ~Includes(url, "aura.RecordUi.") /\ UiData(reqPostData) = Null

isUiRecordApiCall(url, reqPostData) ==
  Includes(url, "/aura")
    /\ (Includes(url, "aura.RecordUi.") \/ UiDescriptorDetected(UiData(reqPostData)))

\* the first entry of a non-empty actions array, undefined otherwise
UiFirstAction(data) ==
  LET actions == Get(data, "actions")
  IN IF Truthy(actions) /\ IsArray(actions) /\ Length(actions) > 0
     THEN At(actions, 0) ELSE Undef

UiMethodFromDescriptor(descriptor) ==
  IF Truthy(descriptor) /\ IsString(descriptor)
  THEN OrElse(MatchAfter(descriptor[2], "ACTION$", {"\""}), Str("unknown"))
  ELSE Str("unknown")

UiMethod(url, data) ==
  IF Includes(url, "aura.RecordUi.")
  THEN OrElse(MatchAfter(url, "aura.RecordUi.", {"=", "&"}), Str("unknown"))
  ELSE IF UiFirstAction(data) # Undef
  THEN UiMethodFromDescriptor(Get(UiFirstAction(data), "descriptor"))
  ELSE UiMethodFromDescriptor(Get(data, "descriptor"))

\* the params object the parameters are read from, undefined when none
UiParamsObject(data) ==
  IF UiFirstAction(data) # Undef
  THEN IF Truthy(Get(UiFirstAction(data), "params")) /\ TypeofObject(Get(UiFirstAction(data), "params"))
       THEN Get(UiFirstAction(data), "params") ELSE Undef
  ELSE IF Truthy(Get(data, "params")) /\ TypeofObject(Get(data, "params"))
       THEN Get(data, "params") ELSE Undef

\* Object.keys(v) as an array of strings
KeysArray(v) == Arr([i \in 1..Len(SpreadPairs(v)) |-> Str(SpreadPairs(v)[i][1])])

\* the parameters extracted from a params object
UiParams(params) ==
  LET recordInput == Get(params, "recordInput")
      create == Truthy(recordInput) /\ TypeofObject(recordInput)
      none == params = Undef
  IN [recordId |-> IF none \/ create THEN Undef ELSE Get(params, "recordId"),
      fields |-> IF none THEN Arr(<<>>)
                 ELSE IF create
                 THEN IF Truthy(Get(recordInput, "fields")) /\ TypeofObject(Get(recordInput, "fields"))
                      THEN KeysArray(Get(recordInput, "fields")) ELSE Arr(<<>>)
                 ELSE IF IsArray(Get(params, "fields")) THEN Get(params, "fields") ELSE Arr(<<>>),
      layoutType |-> IF none \/ create THEN Undef ELSE Get(params, "layoutType"),
      modes |-> IF none \/ create THEN Arr(<<>>)
                ELSE IF IsArray(Get(params, "modes")) THEN Get(params, "modes") ELSE Arr(<<>>),
      recordTypeId |-> IF none \/ create THEN Undef ELSE Get(params, "recordTypeId"),
      apiName |-> IF create THEN Get(recordInput, "apiName") ELSE Undef,
      recordInput |-> IF create THEN recordInput ELSE Undef]

\* Build request object with only non-empty/defined values
UiRequestObj(p) ==
  Obj((IF Truthy(p.recordId) THEN << <<"recordId", p.recordId>> >> ELSE <<>>)
   \o (IF Length(p.fields) > 0 THEN << <<"fields", p.fields>> >> ELSE <<>>)
   \o (IF Truthy(p.layoutType) THEN << <<"layoutType", p.layoutType>> >> ELSE <<>>)
   \o (IF Length(p.modes) > 0 THEN << <<"modes", p.modes>> >> ELSE <<>>)
   \o (IF Truthy(p.recordTypeId) THEN << <<"recordTypeId", p.recordTypeId>> >> ELSE <<>>)
   \o (IF Truthy(p.apiName) THEN << <<"apiName", p.apiName>> >> ELSE <<>>)
   \o (IF Truthy(p.recordInput) THEN << <<"recordInput", p.recordInput>> >> ELSE <<>>))

UiErrorText(uiResponse) ==
  LET error == Get(uiResponse, "error")
      errors == Get(uiResponse, "errors")
  IN IF Truthy(error)
     THEN IF IsString(error) THEN error
          ELSE IF TypeofObject(error) THEN Str(Stringify(error))
          ELSE Str("uiRecordApi error occurred")
     ELSE IF Truthy(errors) /\ IsArray(errors) /\ Length(errors) > 0
     THEN Str(Stringify(errors))
     ELSE Null

\* the result kept for a response without error
UiSuccessResponse(uiResponse) ==
  LET firstAction == UiFirstAction(uiResponse)
  IN IF firstAction = Undef THEN uiResponse
     ELSE IF Truthy(firstAction) /\ Truthy(Get(firstAction, "returnValue"))
     THEN Get(firstAction, "returnValue")
     ELSE Obj(<< <<"id", Get(firstAction, "id")>>,
                 <<"descriptor", Get(firstAction, "descriptor")>>,
                 <<"callingDescriptor", Get(firstAction, "callingDescriptor")>>,
                 <<"returnValue", Get(firstAction, "returnValue")>>,
                 <<"error", Get(firstAction, "error")>>,
                 <<"state", Get(firstAction, "state")>> >>)

\* a property read on null raises inside the uiRecordApi branch
UiThrows(url, reqPostData, resJson) ==
  LET data == UiData(reqPostData)
  IN \/ data = Null
     \/ UiFirstAction(data) = Null
     \/ /\ IsObjectLike(resJson)
        /\ UiErrorText(resJson) = Null
        /\ UiFirstAction(resJson) = Null

\* a variant that gives one record for each entry of the actions array
NormalizeUiRecordApi_PerAction(x, reqPostData, resJson, t) ==
  LET acts == Get(UiData(reqPostData), "actions")
      n == IF IsArray(acts) THEN Length(acts) ELSE 1
  IN Outcome("UiRecordApi",
       [i \in 1..n |->
          ApexAction("uirecordapi-" \o ExchangeId(x) \o "-" \o ToString(t), t,
            Str("uiRecordApi"), UiMethod(x.url, UiData(reqPostData)), x, EmptyObj, EmptyObj,
            reqPostData, OrElse(resJson, EmptyObj), EmptyObj, resJson, Null, Undef)],
       FALSE)

NormalizeUiRecordApi(x, reqPostData, resJson, t) ==
  LET data == UiData(reqPostData)
      uiMethod == UiMethod(x.url, data)
      p == UiParams(UiParamsObject(data))
      error == IF IsObjectLike(resJson) THEN UiErrorText(resJson) ELSE Null
      responseObj == IF ~IsObjectLike(resJson) THEN EmptyObj
                     ELSE IF error # Null THEN resJson
                     ELSE UiSuccessResponse(resJson)
  IN IF UiThrows(x.url, reqPostData, resJson)
     THEN Outcome("UiRecordApi", <<>>, TRUE)
     ELSE Outcome("UiRecordApi",
            << ApexAction("uirecordapi-" \o ExchangeId(x) \o "-" \o ToString(t), t,
                 Str("uiRecordApi"), uiMethod, x,
                 UiRequestObj(p), responseObj, reqPostData, OrElse(resJson, EmptyObj),
                 Obj(<< <<"isUiRecordApi", Bool(TRUE)>>, <<"methodName", uiMethod>>,
                        <<"recordId", p.recordId>>, <<"fieldsCount", Num(Length(p.fields))>>,
                        <<"hasLayoutType", Bool(Truthy(p.layoutType))>>,
                        <<"apiName", p.apiName>> >>),
                 resJson, error, Undef) >>,
            FALSE)

\* ------------------------------------------------------- handleMessage
AcceptedTypes == {"network", "lightning", "community", "vfremoting"}

\* the url tests of the handler, in the order it makes them
isWebruntimeCall(url) == Includes(url, "/webruntime/api/apex/execute")
isVfRemotingCall(url) == Includes(url, "/apexremote")
isGraphQLCall(url) ==
  Includes(url, "/aura")
    /\ (Includes(url, "aura.RecordUi.executeGraphQL") \/ Includes(url, "executeGraphQL"))

\* a variant that tests the remoting path before the web-runtime path
HandleEnvelope_RemotingFirst(msg, apexClassMappings, t, rnd) ==
  LET x == msg.request
      reqPostData == ParseRequest(x)
      resJson == ParseResponse(x)
  IN IF msg.type \notin AcceptedTypes
     THEN Outcome("ignored", <<>>, FALSE)
     ELSE IF ~Truthy(reqPostData) \/ ~TypeofObject(reqPostData)
     THEN Outcome("skipped", <<>>, FALSE)
     ELSE IF isVfRemotingCall(x.url)
     THEN NormalizeVfRemoting(x, reqPostData, resJson, t, rnd)
     ELSE IF isWebruntimeCall(x.url)
     THEN NormalizeWebruntime(x, reqPostData, resJson, apexClassMappings, t)
     ELSE IF isGraphQLCall(x.url)
     THEN NormalizeGraphQL(x, reqPostData, resJson, t)
     ELSE IF UiDetectThrows(x.url, reqPostData)
     THEN Outcome("skipped", <<>>, TRUE)
     ELSE IF isUiRecordApiCall(x.url, reqPostData)
     THEN NormalizeUiRecordApi(x, reqPostData, resJson, t)
     ELSE NormalizeAura(x, reqPostData, resJson, t, rnd)

\* one run of handleMessage on the envelope msg, with the class-name mapping
\* of the current render, at clock t, rnd being the next Math.random text
HandleEnvelope(msg, apexClassMappings, t, rnd) ==
  LET x == msg.request
      reqPostData == ParseRequest(x)
      resJson == ParseResponse(x)
  IN IF msg.type \notin AcceptedTypes
     THEN Outcome("ignored", <<>>, FALSE)
     ELSE IF ~Truthy(reqPostData) \/ ~TypeofObject(reqPostData)
     THEN Outcome("skipped", <<>>, FALSE)
     ELSE IF isWebruntimeCall(x.url)
     THEN NormalizeWebruntime(x, reqPostData, resJson, apexClassMappings, t)
     ELSE IF isVfRemotingCall(x.url)
     THEN NormalizeVfRemoting(x, reqPostData, resJson, t, rnd)
     ELSE IF isGraphQLCall(x.url)
     THEN NormalizeGraphQL(x, reqPostData, resJson, t)
     ELSE IF UiDetectThrows(x.url, reqPostData)
     THEN Outcome("skipped", <<>>, TRUE)
     ELSE IF isUiRecordApiCall(x.url, reqPostData)
     THEN NormalizeUiRecordApi(x, reqPostData, resJson, t)
     ELSE NormalizeAura(x, reqPostData, resJson, t, rnd)

\* ------------------------------------------------------------ the table
\* the sortable columns of the table
columns == <<"timestamp", "apexClass", "method", "latency">>

\* the characters of the sample texts in the order of their code units
CodeUnits == " !#$%&()*+,-./0123456789:;<=>?@ABCDEFGHIJKLMNOPQRSTUVWXYZ[]^_abcdefghijklmnopqrstuvwxyz{|}~"

\* the code unit of a character, by its place in CodeUnits
CodeUnitOf == [c \in {SubSeq(CodeUnits, i, i) : i \in 1..Len(CodeUnits)} |-> IndexOf(CodeUnits, c)]

RECURSIVE StringLess(_, _)
\* a < b for two strings: the first differing code unit decides, a proper
\* prefix is smaller
StringLess(a, b) ==
  IF b = "" THEN FALSE
  ELSE IF a = "" THEN TRUE
  ELSE IF SubSeq(a, 1, 1) = SubSeq(b, 1, 1)
  THEN StringLess(SubSeq(a, 2, Len(a)), SubSeq(b, 2, Len(b)))
  ELSE CodeUnitOf[SubSeq(a, 1, 1)] < CodeUnitOf[SubSeq(b, 1, 1)]

\* a[key] < b[key] for two rows: timestamp and latency are numbers, class
\* and method are compared as strings when both are strings
CellLess(a, b, key) ==
  IF key \in {"timestamp", "latency"} THEN a[key] < b[key]
  ELSE IsString(a[key]) /\ IsString(b[key]) /\ StringLess(a[key][2], b[key][2])

\* String(row[key] ?? "")
CellText(row, key) ==
  IF key \in {"timestamp", "latency"} THEN ToString(row[key])
  ELSE IF row[key] \in {Null, Undef} THEN "" ELSE JsString(row[key])

RECURSIVE SortRows(_, _, _, _)
\* [...data].sort(compare): a stable sort; row goes before the first row of
\* the sorted part that compare puts after it
SortRows(data, done, key, asc) ==
  IF data = <<>> THEN done
  ELSE LET row == Head(data)
           after(e) == IF asc THEN CellLess(row, e, key) ELSE CellLess(e, row, key)
           I == {i \in 1..Len(done) : after(done[i])}
           at == IF I = {} THEN Len(done) + 1 ELSE CHOOSE i \in I : \A j \in I : i <= j
       IN SortRows(Tail(data),
                   SubSeq(done, 1, at - 1) \o <<row>> \o SubSeq(done, at, Len(done)),
                   key, asc)

\* the rows of the table for a log and the settings of the table
Table(data, f, search, key, asc) ==
  LET used == {c \in DOMAIN f : f[c] # ""}
      wanted == [c \in used |-> ToLowerCase(f[c])]
      searching == Trim(search) # ""
      needle == ToLowerCase(Trim(search))
      shown(row) ==
        /\ \A c \in used : Includes(ToLowerCase(CellText(row, c)), wanted[c])
        /\ searching =>
             \/ Includes(ToLowerCase(Stringify(row.request)), needle)
             \/ Includes(ToLowerCase(Stringify(row.response)), needle)
  IN SortRows(SelectSeq(data, shown), <<>>, key, asc)

\* ---------------------------------------------------------------- state
VARIABLES
  completed,             \* the exchanges the host has reported finished, in order
  fetching,              \* envelopes whose getContent callback has not run yet
  panelWindow,           \* devtools.js: TRUE once onShown has supplied the window
  bufferedRequests,      \* devtools.js: window._apexInspectorBufferedRequests
  inbox,                 \* messages posted to the panel window, not yet handled
  actions,               \* panel: the call log
  apexClassMappingsJson, \* panel: the mapping source of the settings snapshot
  expandedId,            \* panel: the id of the row whose detail view is open
  selectedIdx,           \* panel: the index of the selected row of the table
  sortKey,               \* panel: the column the table is sorted by
  sortAsc,               \* panel: TRUE when the sort is ascending
  filter,                \* panel: the filter text of each column
  bodySearch,            \* panel: the request/response search text
  now,                   \* the latest reading of Date.now()
  runs,                  \* history: the runs of handleMessage so far, each with
                         \* its envelope, clock reading, outcome and, for a
                         \* webruntime call, the mapping source then in force
  storage,               \* chrome.storage.local: the item stored under each key
  mounted,               \* the contexts whose useOptionsSettings hook is mounted
  settings,              \* the settings state of the hook of each context
  requests,              \* the storage calls of each context not yet served
  deliveries,            \* the callbacks and events queued for each context
  saves                  \* history: the save calls so far, each with its
                         \* context, its change and whether it has returned

\* the state of the settings store and of the hooks that follow it
sync == <<storage, mounted, settings, requests, deliveries, saves>>

\* the table settings and the selection of the panel
ui == <<expandedId, selectedIdx, sortKey, sortAsc, filter, bodySearch>>

vars == <<sync, completed, fetching, panelWindow, bufferedRequests, inbox, actions,
          apexClassMappingsJson, ui, now, runs>>

\* a finished exchange as the host reports it (a HAR entry): xid stands for
\* the identity of the Request object, body for the text getContent yields
Exchange(url, requestId, mimeType, text, headers, body) ==
  [xid |-> 0, url |-> url, requestId |-> requestId, startedDateTime |-> 1000,
   time |-> 12, mimeType |-> mimeType, text |-> text, headers |-> headers,
   body |-> body]

\* ------------------------------------------------------ the settings store
\* the extension pages that use the settings hook
Contexts == {"panel", "options"}

STORAGE_KEYS == {"theme", "jsonViewTheme", "minRawDataHeight", "apexClassMappingsJson", "alwaysExpandedJson"}

DEFAULTS ==
  Obj(<< <<"theme", Str("light")>>, <<"jsonViewTheme", Str("default")>>,
         <<"minRawDataHeight", Num(320)>>, <<"apexClassMappingsJson", Str("")>>,
         <<"alwaysExpandedJson", Bool(FALSE)>> >>)

\* StorageSync.loadSettings: the settings the callback of
\* chrome.storage.local.get resolves with, given the items it receives
loadSettings(result) ==
  Obj(<< <<"theme", OrElse(Get(result, "theme"), Get(DEFAULTS, "theme"))>>,
         <<"jsonViewTheme",
           OrElse(Get(result, "jsonViewTheme"), Get(DEFAULTS, "jsonViewTheme"))>>,
         <<"minRawDataHeight",
           IF Get(result, "minRawDataHeight")[1] = "num"
           THEN Get(result, "minRawDataHeight") ELSE Get(DEFAULTS, "minRawDataHeight")>>,
         <<"apexClassMappingsJson",
           OrElse(Get(result, "apexClassMappingsJson"),
                  Get(DEFAULTS, "apexClassMappingsJson"))>>,
         <<"alwaysExpandedJson",
           IF Get(result, "alwaysExpandedJson")[1] = "bool"
           THEN Get(result, "alwaysExpandedJson")
           ELSE Get(DEFAULTS, "alwaysExpandedJson")>> >>)

\* the heights the user enters on the options page
RawHeights == {480}

\* the changes the controls of a page save, given the settings it shows:
\* the theme button of both pages, the expand button of the panel, the height
\* input of the options page
SaveInputs(c) ==
  {Obj(<< <<"theme", Str(IF Get(settings[c], "theme") = Str("dark") THEN "light" ELSE "dark")>> >>)}
    \cup (IF c = "panel"
          THEN {Obj(<< <<"alwaysExpandedJson",
                         Bool(~Get(settings[c], "alwaysExpandedJson")[2])>> >>)}
          ELSE {Obj(<< <<"minRawDataHeight", Num(h)>> >>) : h \in RawHeights})

\* the rest of the state, which the settings store leaves alone
devtools == <<completed, fetching, panelWindow, bufferedRequests, inbox, actions,
              apexClassMappingsJson, ui, now, runs>>

\* queue q of context c with message m at its end
Queued(q, c, m) == [q EXCEPT ![c] = Append(@, m)]

\* a page opens: useState(DEFAULTS), the mount effect starts loadSettings and
\* the listeners are registered
mount(c) ==
  /\ c \notin mounted
  /\ mounted' = mounted \cup {c}
  /\ settings' = [settings EXCEPT ![c] = DEFAULTS]
  /\ requests' = Queued(requests, c, [op |-> "get", why |-> "load", data |-> EmptyObj, sid |-> 0])
  /\ UNCHANGED <<storage, deliveries, saves, devtools>>

\* save(newSettings) of the hook: saveSettings starts with loadSettings
save(c, newSettings) ==
  /\ c \in mounted
  /\ Len(saves) < MaxSaves
  /\ requests' = Queued(requests, c, [op |-> "get", why |-> "save", data |-> newSettings,
                                      sid |-> Len(saves) + 1])
  /\ saves' = Append(saves, [ctx |-> c, newSettings |-> newSettings, done |-> FALSE])
  /\ UNCHANGED <<storage, mounted, settings, deliveries, devtools>>

\* chrome.storage.local.get: the browser serves the oldest call of context c,
\* if it is a get, and queues its callback for c
storageLocalGet ==
  \E c \in Contexts :
    /\ requests[c] # <<>>
    /\ Head(requests[c]).op = "get"
    /\ LET call == Head(requests[c])
       IN deliveries' = Queued(deliveries, c, [kind |-> "got", why |-> call.why, result |-> storage,
                                               data |-> call.data, sid |-> call.sid])
    /\ requests' = [requests EXCEPT ![c] = Tail(@)]
    /\ UNCHANGED <<storage, mounted, settings, saves, devtools>>

\* the items of a set call that differ from what is stored
Changes(items) ==
  Obj(SelectSeq(items[2], LAMBDA p : Get(storage, p[1]) # p[2]))

\* a variant that reports a change to the page that made it only
storageLocalSet_OwnPage ==
  \E c \in Contexts :
    /\ requests[c] # <<>>
    /\ Head(requests[c]).op = "set"
    /\ LET call == Head(requests[c])
           changes == Changes(call.data)
           event == [kind |-> "changed", why |-> "", result |-> changes, data |-> EmptyObj, sid |-> 0]
           callback == [kind |-> "stored", why |-> "save", result |-> EmptyObj,
                        data |-> call.data, sid |-> call.sid]
       IN /\ storage' = Spread2(storage, call.data)
          /\ deliveries' =
               [d \in Contexts |->
                  deliveries[d]
                    \o (IF d = c /\ changes # EmptyObj THEN <<event>> ELSE <<>>)
                    \o (IF d = c THEN <<callback>> ELSE <<>>)]
    /\ requests' = [requests EXCEPT ![c] = Tail(@)]
    /\ UNCHANGED <<mounted, settings, saves, devtools>>

\* chrome.storage.local.set: the browser serves the oldest call of context c,
\* if it is a set: it stores the items, queues an onChanged event for every
\* open page when an item changed, and queues the callback for c
storageLocalSet ==
  \E c \in Contexts :
    /\ requests[c] # <<>>
    /\ Head(requests[c]).op = "set"
    /\ LET call == Head(requests[c])
           changes == Changes(call.data)
           event == [kind |-> "changed", why |-> "", result |-> changes, data |-> EmptyObj, sid |-> 0]
           callback == [kind |-> "stored", why |-> "save", result |-> EmptyObj,
                        data |-> call.data, sid |-> call.sid]
       IN /\ storage' = Spread2(storage, call.data)
          /\ deliveries' =
               [d \in Contexts |->
                  deliveries[d]
                    \o (IF d \in mounted /\ changes # EmptyObj THEN <<event>> ELSE <<>>)
                    \o (IF d = c THEN <<callback>> ELSE <<>>)]
    /\ requests' = [requests EXCEPT ![c] = Tail(@)]
    /\ UNCHANGED <<mounted, settings, saves, devtools>>

\* the oldest callback or event queued for context c is of kind k
Pending(c, k) == deliveries[c] # <<>> /\ Head(deliveries[c]).kind = k

\* the chrome.storage.onChanged listener: loadAndNotify starts loadSettings
onChanged(c) ==
  /\ Pending(c, "changed")
  /\ deliveries' = [deliveries EXCEPT ![c] = Tail(@)]
  /\ IF \E key \in STORAGE_KEYS : Has(Head(deliveries[c]).result, key)
     THEN requests' = Queued(requests, c, [op |-> "get", why |-> "load", data |-> EmptyObj, sid |-> 0])
     ELSE UNCHANGED requests
  /\ UNCHANGED <<storage, mounted, settings, saves, devtools>>

\* the get of the mount effect or of loadAndNotify returns: notifyListeners
\* and handleSettingsChange replace the settings of the hook
loadAndNotify(c) ==
  /\ Pending(c, "got")
  /\ Head(deliveries[c]).why = "load"
  /\ deliveries' = [deliveries EXCEPT ![c] = Tail(@)]
  /\ settings' = [settings EXCEPT ![c] = loadSettings(Head(deliveries[c]).result)]
  /\ UNCHANGED <<storage, mounted, requests, saves, devtools>>

\* the get of saveSettings returns: the change is spread over the loaded
\* settings and the whole object is stored
saveSettings(c) ==
  /\ Pending(c, "got")
  /\ Head(deliveries[c]).why = "save"
  /\ deliveries' = [deliveries EXCEPT ![c] = Tail(@)]
  /\ LET got == Head(deliveries[c])
         currentSettings == loadSettings(got.result)
         updated == Spread2(currentSettings, got.data)
     IN requests' = Queued(requests, c, [op |-> "set", why |-> "save", data |-> updated,
                                         sid |-> got.sid])
  /\ UNCHANGED <<storage, mounted, settings, saves, devtools>>

\* the set of saveSettings returns: save() puts the stored object into the
\* settings of the hook
saved(c) ==
  /\ Pending(c, "stored")
  /\ deliveries' = [deliveries EXCEPT ![c] = Tail(@)]
  /\ settings' = [settings EXCEPT ![c] = Head(deliveries[c]).data]
  /\ saves' = [saves EXCEPT ![Head(deliveries[c]).sid].done = TRUE]
  /\ UNCHANGED <<storage, mounted, requests, devtools>>

\* const filteredSorted = useMemo(...)
filteredSorted == Table(actions, filter, bodySearch, sortKey, sortAsc)

Init ==
  /\ completed = <<>>
  /\ fetching = {}
  /\ panelWindow = FALSE
  /\ bufferedRequests = <<>>
  /\ inbox = <<>>
  /\ actions = <<>>
  /\ apexClassMappingsJson = TextEmpty
  /\ expandedId = Null
  /\ selectedIdx = Null
  /\ sortKey = "timestamp"
  /\ sortAsc = FALSE
  /\ filter = [c \in {columns[i] : i \in 1..Len(columns)} |-> ""]
  /\ bodySearch = ""
  /\ now = 0
  /\ runs = <<>>
  /\ storage = EmptyObj
  /\ mounted = {}
  /\ settings = [c \in Contexts |-> DEFAULTS]
  /\ requests = [c \in Contexts |-> <<>>]
  /\ deliveries = [c \in Contexts |-> <<>>]
  /\ saves = <<>>

\* the effect that follows a change of the table or of the expanded row:
\* the handler leaves idx as the selected index, and the selection is
\* dropped when the expanded row is not in the table as it is after the step
SettledIn(table, idx) ==
  selectedIdx' =
    IF Truthy(expandedId') /\ \A i \in 1..Len(table) : Str(table[i].id) # expandedId'
    THEN Null ELSE idx

Settled(idx) == SettledIn(Table(actions', filter', bodySearch', sortKey', sortAsc'), idx)

\* a variant that forwards every finished exchange
EnvelopesFor_Unfiltered(x) == {[type |-> "network", request |-> x]}

\* the envelopes devtools.js starts fetching for the finished exchange x
EnvelopesFor(x) ==
  IF x.url = "" THEN {}
  ELSE (IF Includes(x.url, "/aura") THEN {[type |-> "lightning", request |-> x]} ELSE {})
         \cup (IF Includes(x.url, "/webruntime/api/apex/execute")
               THEN {[type |-> "community", request |-> x]} ELSE {})

\* chrome.devtools.network.onRequestFinished: the host reports exchange x
onRequestFinished(x, max) ==
  /\ Len(completed) < max
  /\ LET reported == [x EXCEPT !.xid = Len(completed) + 1]
     IN /\ completed' = Append(completed, reported)
        /\ fetching' = fetching \cup EnvelopesFor(reported)
  /\ UNCHANGED <<sync, panelWindow, bufferedRequests, inbox, actions,
                 apexClassMappingsJson, ui, now, runs>>

\* the getContent callback of one envelope runs postToPanel
postToPanel ==
  \E msg \in fetching :
    /\ fetching' = fetching \ {msg}
    /\ IF panelWindow
       THEN inbox' = Append(inbox, msg) /\ UNCHANGED bufferedRequests
       ELSE bufferedRequests' = Append(bufferedRequests, msg) /\ UNCHANGED inbox
    /\ UNCHANGED <<sync, completed, panelWindow, actions, apexClassMappingsJson, ui, now, runs>>

\* a variant that posts the buffer and keeps it
onShown_KeepBuffer ==
  /\ panelWindow' = TRUE
  /\ inbox' = inbox \o bufferedRequests
  /\ UNCHANGED <<sync, completed, fetching, bufferedRequests, actions,
                 apexClassMappingsJson, ui, now, runs>>

\* panel.onShown: keep the window and flush the buffer in order
onShown ==
  /\ panelWindow' = TRUE
  /\ inbox' = inbox \o bufferedRequests
  /\ bufferedRequests' = <<>>
  /\ UNCHANGED <<sync, completed, fetching, actions, apexClassMappingsJson, ui, now,
                 runs>>

RandomTexts == {"k3f", "9zq"}

\* a variant that puts the records of the handled envelope at the head of
\* the log
handleMessage_Prepend ==
  /\ inbox # <<>>
  /\ \E t \in now..MaxTime : \E rnd \in RandomTexts :
       LET maps == parseApexClassMappings(apexClassMappingsJson)
           out == HandleEnvelope(Head(inbox), maps, t, rnd)
       IN /\ actions' = out.recs \o actions
          /\ now' = t
          /\ runs' = Append(runs, [msg |-> Head(inbox), t |-> t, out |-> out,
                                   mappingsJson |->
                                     IF out.shape = "WebruntimeSingle"
                                     THEN apexClassMappingsJson ELSE TextEmpty])
  /\ inbox' = Tail(inbox)
  /\ UNCHANGED <<sync, completed, fetching, panelWindow, bufferedRequests,
                 apexClassMappingsJson, expandedId, sortKey, sortAsc, filter,
                 bodySearch>>
  /\ Settled(selectedIdx)

\* the panel handles the oldest posted message; t is what Date.now() reads
\* during the call, never earlier than the reading before it
handleMessage ==
  /\ inbox # <<>>
  /\ \E t \in now..MaxTime : \E rnd \in RandomTexts :
       LET maps == parseApexClassMappings(apexClassMappingsJson)
           out == HandleEnvelope(Head(inbox), maps, t, rnd)
       IN /\ actions' = actions \o out.recs
          /\ now' = t
          /\ runs' = Append(runs, [msg |-> Head(inbox), t |-> t, out |-> out,
                                   mappingsJson |->
                                     IF out.shape = "WebruntimeSingle"
                                     THEN apexClassMappingsJson ELSE TextEmpty])
  /\ inbox' = Tail(inbox)
  /\ UNCHANGED <<sync, completed, fetching, panelWindow, bufferedRequests,
                 apexClassMappingsJson, expandedId, sortKey, sortAsc, filter,
                 bodySearch>>
  /\ Settled(selectedIdx)

\* a variant that empties the log and keeps the selection
Clear_KeepSelection ==
  /\ actions' = <<>>
  /\ UNCHANGED <<sync, completed, fetching, panelWindow, bufferedRequests, inbox,
                 apexClassMappingsJson, ui, now, runs>>

\* the Clear button
Clear ==
  /\ actions' = <<>>
  /\ expandedId' = Null
  /\ selectedIdx' = Null
  /\ UNCHANGED <<sync, completed, fetching, panelWindow, bufferedRequests, inbox,
                 apexClassMappingsJson, sortKey, sortAsc, filter, bodySearch,
                 now, runs>>

\* the settings listener replaces the snapshot
SettingsChanged(json) ==
  /\ apexClassMappingsJson' = json
  /\ UNCHANGED <<sync, completed, fetching, panelWindow, bufferedRequests, inbox,
                 actions, ui, now, runs>>

\* the rest of the state, which the handlers of the table leave alone
traffic == <<sync, completed, fetching, panelWindow, bufferedRequests, inbox, actions,
             apexClassMappingsJson, now, runs>>

\* the keydown listener
handleKey(key) ==
  /\ UNCHANGED <<traffic, sortKey, sortAsc, filter, bodySearch>>
  /\ LET table == filteredSorted
         n == Len(table)
         idOf(newIdx) == IF newIdx + 1 \in 1..n
                         THEN OrElse(Str(table[newIdx + 1].id), Null) ELSE Null
     IN IF n = 0 THEN UNCHANGED <<expandedId, selectedIdx>>
        ELSE IF key \in {"Delete", "Backspace"} /\ Truthy(expandedId)
        THEN expandedId' = Null /\ selectedIdx' = Null
        ELSE IF key = "ArrowRight"
        THEN LET newIdx == IF selectedIdx = Null THEN 0
                           ELSE IF selectedIdx[2] + 1 < n - 1 THEN selectedIdx[2] + 1 ELSE n - 1
             IN expandedId' = idOf(newIdx) /\ SettledIn(table, Num(newIdx))
        ELSE IF key = "ArrowLeft"
        THEN LET newIdx == IF selectedIdx = Null THEN 0
                           ELSE IF selectedIdx[2] - 1 > 0 THEN selectedIdx[2] - 1 ELSE 0
             IN expandedId' = idOf(newIdx) /\ SettledIn(table, Num(newIdx))
        ELSE UNCHANGED <<expandedId, selectedIdx>>

\* a click on row i of the table
rowClick(i) ==
  LET table == filteredSorted
  IN /\ i + 1 \in 1..Len(table)
     /\ UNCHANGED <<traffic, sortKey, sortAsc, filter, bodySearch>>
     /\ IF expandedId = Str(table[i + 1].id)
        THEN expandedId' = Null /\ selectedIdx' = Null
        ELSE expandedId' = Str(table[i + 1].id) /\ SettledIn(table, Num(i))

\* the previous (back TRUE) or next button of the toolbar; the button is
\* disabled without a selected index and at the end it leads to
stepButton(back) ==
  /\ UNCHANGED <<traffic, sortKey, sortAsc, filter, bodySearch>>
  /\ LET table == filteredSorted
         n == Len(table)
         idx == selectedIdx[2]
         newIdx == IF back THEN (IF idx - 1 > 0 THEN idx - 1 ELSE 0)
                   ELSE (IF idx + 1 < n - 1 THEN idx + 1 ELSE n - 1)
     IN /\ selectedIdx # Null
        /\ idx # (IF back THEN 0 ELSE n - 1)
        /\ IF Truthy(expandedId)
           THEN expandedId' = (IF newIdx + 1 \in 1..n
                               THEN OrElse(Str(table[newIdx + 1].id), Null) ELSE Null)
           ELSE UNCHANGED expandedId
        /\ SettledIn(table, Num(newIdx))

\* the close button of the detail view
closeDetail ==
  /\ expandedId # Null
  /\ expandedId' = Null
  /\ selectedIdx' = Null
  /\ UNCHANGED <<traffic, sortKey, sortAsc, filter, bodySearch>>

\* a click on the header of column col
sortClick(col) ==
  /\ sortKey' = col
  /\ sortAsc' = IF sortKey = col THEN ~sortAsc ELSE TRUE
  /\ UNCHANGED <<traffic, expandedId, filter, bodySearch>>
  /\ Settled(selectedIdx)

\* typing text into the filter input of column col
setFilter(col, text) ==
  /\ filter' = [filter EXCEPT ![col] = text]
  /\ UNCHANGED <<traffic, expandedId, sortKey, sortAsc, bodySearch>>
  /\ Settled(selectedIdx)

\* typing text into the search input
setBodySearch(text) ==
  /\ bodySearch' = text
  /\ UNCHANGED <<traffic, expandedId, sortKey, sortAsc, filter>>
  /\ Settled(selectedIdx)

\* ------------------------------------------------------- sample traffic
JsonHeaders == << <<"Content-Type", "application/json;charset=UTF-8">> >>
HtmlHeaders == << <<"content-type", "text/html">> >>

UrlAura == "/s/sfsites/aura?r=1&aura.ApexAction.execute=1"
UrlWebruntime == "/webruntime/api/apex/execute?language=en-US"
UrlApexRemote == "/apexremote"
UrlSiteApexRemote == "/auradev/apexremote"
UrlGraphQL == "/aura?r=2&aura.RecordUi.executeGraphQL=1"
UrlRecordUi == "/aura?r=3&aura.RecordUi.getRecordWithFields=1"
UrlOther == "/services/data/v60.0/query"

\* the form-encoded body of a request to the Aura gateway
AuraForm(message) ==
  TextForm(<< <<"message", TextJson(message)>>, <<"aura.token", TextBad>> >>)

\* an action entry of an Aura request; pre holds the fields that precede
\* the descriptor (id, actionId)
AuraAction(pre, descriptor, params) ==
  Obj(pre \o << <<"descriptor", Str(descriptor)>>, <<"params", params>> >>)

ApexParams(classname, method) ==
  Obj(<< <<"classname", Str(classname)>>, <<"method", Str(method)>>,
         <<"params", Obj(<< <<"accountId", Str("001A")>> >>)>> >>)

ComponentDescriptor == "aura://ComponentController/ACTION$getComponent"

AuraRequest(actionList) == Exchange(UrlAura, Undef, Str(FormMime),
                             AuraForm(Obj(<< <<"actions", Arr(actionList)>> >>)),
                             JsonHeaders, NoText)

\* a successful response entry
AuraSuccess(id, returnValue) ==
  Obj(<< <<"id", Str(id)>>, <<"state", Str("SUCCESS")>>, <<"returnValue", returnValue>> >>)

AuraResponse(entries) ==
  TextJson(Obj(<< <<"actions", Arr(entries)>>, <<"context", Obj(<< <<"mode", Str("PROD")>> >>)>> >>))

\* two Apex actions in one boxcar
XAuraPair ==
  [AuraRequest(<< AuraAction(<< <<"id", Str("1;a")>> >>, ApexDescriptor, ApexParams("AccountCtl", "load")),
                  AuraAction(<< <<"id", Str("2;a")>> >>, ApexDescriptor, ApexParams("AccountCtl", "save")) >>)
   EXCEPT !.body = AuraResponse(<< AuraSuccess("1;a", Obj(<< <<"name", Str("Acme")>> >>)),
                                   AuraSuccess("2;a", Obj(<< <<"ok", Bool(TRUE)>> >>)) >>)]

\* one Apex action boxcarred with a framework action
XAuraMixed ==
  [AuraRequest(<< AuraAction(<< <<"id", Str("3;a")>> >>, ComponentDescriptor, EmptyObj),
                  AuraAction(<< <<"id", Str("4;a")>> >>, ApexDescriptor, ApexParams("CaseCtl", "list")) >>)
   EXCEPT !.body = AuraResponse(<< AuraSuccess("3;a", EmptyObj),
                                   AuraSuccess("4;a", Obj(<< <<"n", Num(2)>> >>)) >>)]

ObfuscatedClass == "@udd/01p000000000001"
ClassId18 == "01p000000000001AAA"
ClassId15 == "01p000000000001"

WebruntimeRequest(classname) ==
  Exchange(UrlWebruntime, Undef, Str(JsonMime),
    TextJson(Obj(<< <<"namespace", Str("")>>, <<"classname", Str(classname)>>,
                    <<"method", Str("getCart")>>,
                    <<"params", Obj(<< <<"cartId", Str("0a6")>> >>)>> >>)),
    JsonHeaders,
    TextJson(Obj(<< <<"returnValue", Obj(<< <<"total", Num(3)>> >>)>>,
                    <<"cacheable", Bool(FALSE)>> >>)))

XWebruntime == WebruntimeRequest(ObfuscatedClass)

VfCall(action, method, tid) ==
  Obj(<< <<"action", Str(action)>>, <<"method", Str(method)>>,
         <<"data", Arr(<< Num(tid) >>)>>, <<"type", Str("rpc")>>, <<"tid", Num(tid)>>,
         <<"ctx", Obj(<< <<"csrf", Str("tok")>> >>)>> >>)

VfRequest(url, calls, responses) ==
  Exchange(url, Undef, Str(JsonMime), TextJson(calls), JsonHeaders, TextJson(responses))

\* the mapping source: SF CLI output with one ApexClass record
MappingJson(id, name) ==
  TextJson(Obj(<< <<"status", Num(0)>>,
                  <<"result", Obj(<< <<"records", Arr(<< Obj(<< <<"Id", Str(id)>>, <<"Name", Str(name)>> >>) >>)>> >>)>> >>))

MappingSources == {TextEmpty, MappingJson(ClassId18, "CartController")}

\* ---- traffic for the dispatch order: every url below with every payload
UrlWebVf == "/webruntime/api/apex/execute/apexremote"
UrlVfGraphQL == "/auradev/apexremote?aura.RecordUi.executeGraphQL=1"

DispatchUrls == {UrlOther, UrlApexRemote, UrlWebruntime, UrlWebVf, UrlSiteApexRemote,
                 UrlVfGraphQL, UrlGraphQL, UrlRecordUi, UrlAura}

\* a gateway request with one action of the given descriptor
GatewayPayload(url, descriptor) ==
  [Exchange(url, Undef, Str(FormMime),
            AuraForm(Obj(<< <<"actions", Arr(<< AuraAction(<< <<"id", Str("7;a")>> >>, descriptor,
                                                       ApexParams("AccountCtl", "load")) >>)>> >>)),
            JsonHeaders, NoText)
   EXCEPT !.body = AuraResponse(<< AuraSuccess("7;a", Obj(<< <<"name", Str("Acme")>> >>)) >>)]

\* a JSON body that is itself one call descriptor
DescriptorPayload(url) ==
  Exchange(url, Undef, Str(JsonMime),
    TextJson(Obj(<< <<"namespace", Str("")>>, <<"classname", Str("CartCtl")>>,
                    <<"action", Str("CartCtl")>>, <<"method", Str("getCart")>>,
                    <<"params", EmptyObj>>, <<"data", Arr(<<>>)>>,
                    <<"type", Str("rpc")>> >>)),
    JsonHeaders,
    TextJson(Obj(<< <<"returnValue", Obj(<< <<"total", Num(3)>> >>)>> >>)))

DispatchExchanges ==
  UNION {{GatewayPayload(url, ApexDescriptor), GatewayPayload(url, RecordUiDescriptor),
          DescriptorPayload(url)} : url \in DispatchUrls}

\* ---- traffic for the error flattening: one Apex action whose response
\* entry is in the failure state, its error array starting with errorObj
FailedEntry(errorObj, rv) ==
  Obj(<< <<"id", Str("8;a")>>, <<"state", Str("ERROR")>> >> \o rv
         \o << <<"error", Arr(<< errorObj >>)>> >>)

FailedExchange(errorObj, rv) ==
  [AuraRequest(<< AuraAction(<< <<"id", Str("8;a")>> >>, ApexDescriptor,
                             ApexParams("OrderCtl", "submit")) >>)
   EXCEPT !.body = AuraResponse(<< FailedEntry(errorObj, rv) >>)]

ErrorObjects ==
  { Obj(<< <<"message", Str("Bad input")>>, <<"exceptionType", Str("X")>> >>),
    Obj(<< <<"exceptionType", Str("X")>>, <<"stackTrace", Str("Class.OrderCtl: line 3")>> >>),
    Obj(<< <<"message", Str("Bad input")>>, <<"isUserDefinedException", Bool(FALSE)>> >>) }

\* the return value that comes with the failed entry: none, null, a partial
\* result, and partial results that use a key of the error object
ReturnValues ==
  { <<>>,
    << <<"returnValue", Null>> >>,
    << <<"returnValue", Obj(<< <<"partial", Num(1)>> >>)>> >>,
    << <<"returnValue", Obj(<< <<"message", Str("1 of 2 rows saved")>> >>)>> >>,
    << <<"returnValue", Obj(<< <<"exceptionType", Str("none")>>, <<"rows", Num(1)>> >>)>> >> }

ErrorExchanges == {FailedExchange(e, rv) : e \in ErrorObjects, rv \in ReturnValues}

\* ---- traffic for the id resolution: one Apex action, the id fields of the
\* request action and of the response entry, and the performance summary
IdExchange(pre, respPre, perf) ==
  [AuraRequest(<< AuraAction(pre, ApexDescriptor, ApexParams("AccountCtl", "load")) >>)
   EXCEPT !.body =
     TextJson(Obj(<< <<"actions", Arr(<< Obj(respPre \o << <<"state", Str("SUCCESS")>>,
                                                          <<"returnValue", EmptyObj>> >>) >>)>> >>
                  \o perf))]

NoFields == <<>>
PerfSummary ==
  << <<"perfSummary", Obj(<< <<"version", Str("core")>>, <<"request_1234", Num(5)>>,
                             <<"actionsTotal", Num(3)>> >>)>> >>

\* the id fields of the request action, those of the response entry, and
\* the performance summary of each sample
IdCases ==
  { << << <<"id", Str("abc123")>> >>, << <<"actionId", Str("zzz")>> >>, NoFields >>,
    << << <<"id", Str("abc123")>>, <<"actionId", Str("act-1")>> >>, << <<"id", Str("rid-9")>> >>, PerfSummary >>,
    << << <<"id", Str("")>> >>, << <<"id", Str("rid-9")>> >>, NoFields >>,
    << << <<"id", Str("")>>, <<"actionId", Str("act-1")>> >>, NoFields, PerfSummary >>,
    << << <<"actionId", Str("act-1")>> >>, << <<"id", Str("rid-9")>> >>, NoFields >>,
    << << <<"id", Num(7)>>, <<"actionId", Str("act-1")>> >>, << <<"id", Str("rid-9")>> >>, NoFields >>,
    << NoFields, << <<"id", Str("rid-9")>>, <<"actionId", Str("zzz")>> >>, PerfSummary >>,
    << NoFields, << <<"id", Null>>, <<"actionId", Str("zzz")>> >>, NoFields >>,
    << NoFields, << <<"id", Null>> >>, PerfSummary >>,
    << NoFields, NoFields, PerfSummary >>,
    << NoFields, NoFields, NoFields >> }

\* two Apex actions without id fields
NoIdPair(perf) ==
  [AuraRequest(<< AuraAction(<<>>, ApexDescriptor, ApexParams("AccountCtl", "load")),
                  AuraAction(<<>>, ApexDescriptor, ApexParams("AccountCtl", "save")) >>)
   EXCEPT !.body =
     TextJson(Obj(<< <<"actions", Arr(<< AuraSuccess("r1", EmptyObj),
                                         Obj(<< <<"state", Str("SUCCESS")>> >>) >>)>> >>
                  \o perf))]

\* one Apex action whose params name no class and no method
UnnamedCall(params) ==
  [AuraRequest(<< AuraAction(<< <<"id", Str("9;a")>> >>, ApexDescriptor, params) >>)
   EXCEPT !.body = AuraResponse(<< AuraSuccess("9;a", Obj(<< <<"ok", Bool(TRUE)>> >>)) >>)]

AuraExchanges ==
  {IdExchange(c[1], c[2], c[3]) : c \in IdCases}
    \cup {NoIdPair(NoFields), NoIdPair(PerfSummary), XAuraMixed}
    \cup {UnnamedCall(Obj(<< <<"recordId", Str("001A")>> >>)),
          UnnamedCall(Obj(<< <<"classname", Num(5)>>, <<"methodName", Null>> >>)),
          UnnamedCall(Obj(<< <<"className", Str("AccountCtl")>>, <<"methodName", Str("load")>> >>))}

\* ---- traffic for the class-name resolution of web-runtime calls
WebruntimeCall(namespace, classname) ==
  Exchange(UrlWebruntime, Undef, Str(JsonMime),
    TextJson(Obj(<< <<"namespace", Str(namespace)>>, <<"classname", Str(classname)>>,
                    <<"method", Str("getCart")>>,
                    <<"params", Obj(<< <<"cartId", Str("0a6")>> >>)>> >>)),
    JsonHeaders,
    TextJson(Obj(<< <<"returnValue", Obj(<< <<"total", Num(3)>> >>)>>,
                    <<"cacheable", Bool(FALSE)>> >>)))

\* namespace and class name of each sample call
WebCalls ==
  { <<"", ObfuscatedClass>>, <<"", "@udd/01p000000000001AAA">>,
    <<"", "@udd/01p000000000009">>, <<"", "@udd/">>, <<"", "@app/lib/01p000000000001">>,
    <<"shop", ObfuscatedClass>>, <<"shop", "@udd/01p000000000009">>,
    <<"", "CartController">> }

WebExchanges == {WebruntimeCall(c[1], c[2]) : c \in WebCalls}

WebMappingSources ==
  { TextEmpty, MappingJson(ClassId18, "CartController"),
    MappingJson(ClassId15, "CartController") }

\* ---- traffic for Visualforce remoting batches
VfOk == Obj(<< <<"statusCode", Num(200)>>, <<"type", Str("rpc")>>, <<"result", Str("ok1")>> >>)
VfBad == Obj(<< <<"error", Str("bad")>> >>)
VfEmptyError == Obj(<< <<"error", Str("")>>, <<"result", Str("ok2")>> >>)
VfStructuredError == Obj(<< <<"error", Obj(<< <<"message", Str("deep")>> >>)>> >>)

\* the response arrays of the sample batches
VfResponseLists ==
  { <<VfOk, VfBad>>, <<VfBad, VfOk>>, <<VfOk, VfOk>>, <<VfEmptyError, VfBad>>,
    <<VfStructuredError, VfEmptyError>>, <<VfBad, VfOk, VfEmptyError>> }

VfCalls == << VfCall("A", "m1", 1), VfCall("B", "m2", 2), VfCall("C", "m3", 3) >>

VfExchanges ==
  {VfRequest(UrlSiteApexRemote, Arr(SubSeq(VfCalls, 1, Len(rs))), Arr(rs)) : rs \in VfResponseLists}

\* ---- traffic for the GraphQL and record-service shapes
GraphqlDescriptor == "aura://RecordUiController/ACTION$executeGraphQL"
UrlBoxcar == "/aura?r=4&aura.ApexAction.execute=1&aura.RecordUi.executeGraphQL=1"

\* a gateway request with the given actions and response entries
GatewayCall(url, actionList, entries) ==
  [Exchange(url, Undef, Str(FormMime), AuraForm(Obj(<< <<"actions", Arr(actionList)>> >>)),
            JsonHeaders, NoText)
   EXCEPT !.body = AuraResponse(entries)]

\* the params of the sample GraphQL actions
QueryParams ==
  { Obj(<< <<"queryInput", Obj(<< <<"operationName", Str("doThing")>>,
                                  <<"query", Str("mutation { doThing }")>>,
                                  <<"variables", Obj(<< <<"x", Num(1)>> >>)>> >>)>> >>),
    Obj(<< <<"queryInput", Obj(<< <<"query", Str("  SUBSCRIPTION onCase { id }")>> >>)>> >>),
    Obj(<< <<"queryInput", Obj(<< <<"query", Str("query accounts { uiapi }")>> >>)>> >>),
    Obj(<< <<"query", Str("{ uiapi { query } }")>>, <<"variables", Obj(<< <<"n", Num(2)>> >>)>> >>),
    Obj(<< <<"graphQL", Str("Mutation save { ok }")>> >>),
    Obj(<< <<"gql", Str("subscriptions { id }")>> >>),
    Obj(<< <<"queryInput", Obj(<< <<"operationName", Str("save")>> >>)>>,
           <<"query", Str("mutation save { ok }")>> >>),
    Obj(<< <<"recordId", Str("001A")>> >>),
    EmptyObj }

GraphqlExchanges ==
  {GatewayCall(UrlGraphQL, << AuraAction(<< <<"id", Str("5;a")>> >>, GraphqlDescriptor, p) >>,
               << AuraSuccess("5;a", Obj(<< <<"data", EmptyObj>> >>)) >>) : p \in QueryParams}
  \cup
  { \* two GraphQL operations in one exchange
    GatewayCall(UrlGraphQL,
      << AuraAction(<< <<"id", Str("5;a")>> >>, GraphqlDescriptor, Obj(<< <<"query", Str("{ a }")>> >>)),
         AuraAction(<< <<"id", Str("6;a")>> >>, GraphqlDescriptor, Obj(<< <<"query", Str("mutation { b }")>> >>)) >>,
      << AuraSuccess("5;a", EmptyObj), AuraSuccess("6;a", EmptyObj) >>),
    \* a GraphQL operation whose url does not name it
    GatewayCall(UrlAura,
      << AuraAction(<< <<"id", Str("5;a")>> >>, GraphqlDescriptor, Obj(<< <<"query", Str("{ a }")>> >>)) >>,
      << AuraSuccess("5;a", EmptyObj) >>),
    \* an Apex action boxcarred with a GraphQL operation
    GatewayCall(UrlBoxcar,
      << AuraAction(<< <<"id", Str("5;a")>> >>, ApexDescriptor, ApexParams("AccountCtl", "load")),
         AuraAction(<< <<"id", Str("6;a")>> >>, GraphqlDescriptor, Obj(<< <<"query", Str("{ a }")>> >>)) >>,
      << AuraSuccess("5;a", EmptyObj), AuraSuccess("6;a", EmptyObj) >>),
    \* an Apex action alone, and one under a url that names GraphQL
    GatewayCall(UrlAura,
      << AuraAction(<< <<"id", Str("5;a")>> >>, ApexDescriptor, ApexParams("AccountCtl", "load")) >>,
      << AuraSuccess("5;a", EmptyObj) >>),
    GatewayCall(UrlGraphQL,
      << AuraAction(<< <<"id", Str("5;a")>> >>, ApexDescriptor, ApexParams("AccountCtl", "load")) >>,
      << AuraSuccess("5;a", EmptyObj) >>),
    \* two record-service actions in one exchange
    GatewayCall(UrlRecordUi,
      << AuraAction(<< <<"id", Str("5;a")>> >>, RecordUiDescriptor, Obj(<< <<"recordId", Str("001A")>> >>)),
         AuraAction(<< <<"id", Str("6;a")>> >>, RecordUiDescriptor, Obj(<< <<"recordId", Str("001B")>> >>)) >>,
      << AuraSuccess("5;a", EmptyObj), AuraSuccess("6;a", EmptyObj) >>),
    \* a web-runtime call whose body has an actions array of two entries
    Exchange(UrlWebruntime, Undef, Str(JsonMime),
      TextJson(Obj(<< <<"namespace", Str("")>>, <<"classname", Str("CartController")>>,
                      <<"method", Str("getCart")>>,
                      <<"actions", Arr(<< EmptyObj, EmptyObj >>)>> >>)),
      JsonHeaders, TextJson(Obj(<< <<"returnValue", Num(3)>> >>))) }

\* ---- traffic for the decoding of request and response bodies
CartCall ==
  Obj(<< <<"namespace", Str("")>>, <<"classname", Str("CartController")>>,
         <<"method", Str("getCart")>>, <<"params", Obj(<< <<"cartId", Str("0a6")>> >>)>> >>)
CartResult == Obj(<< <<"returnValue", Obj(<< <<"total", Num(3)>> >>)>> >>)

\* declared content type and text of the sample request bodies
RequestBodies ==
  { <<Str(JsonMime), TextJson(CartCall)>>, <<Str(JsonMime), TextBad>>,
    <<Undef, NoText>>, <<Str("text/plain"), TextJson(CartCall)>>,
    <<Str(JsonMime), TextJson(Num(5))>>, <<Str(JsonMime), TextJson(Null)>>,
    <<Str(JsonMime), TextForm(<< <<"message", TextJson(CartCall)>> >>)>>,
    <<Str(FormMime \o "; charset=UTF-8"), TextForm(<< <<"aura.token", TextBad>>, <<"message", TextJson(CartCall)>> >>)>>,
    <<Str(FormMime), TextJson(CartCall)>>,
    <<Str(FormMime), TextForm(<< <<"message", TextBad>> >>)>>,
    <<Str(FormMime), TextForm(<< <<"aura.token", TextBad>> >>)>> }

\* headers and text of the sample response bodies
ResponseBodies ==
  { <<HtmlHeaders, TextJson(CartResult)>>,
    << << <<"CONTENT-TYPE", JsonMime>> >>, TextJson(CartResult)>>,
    << <<>>, TextJson(CartResult)>>,
    <<JsonHeaders, TextBad>>, <<JsonHeaders, NoText>> }

DecodeExchanges ==
  {Exchange(UrlWebruntime, Undef, b[1], b[2], JsonHeaders, TextJson(CartResult)) : b \in RequestBodies}
  \cup {Exchange(UrlWebruntime, Undef, Str(JsonMime), TextJson(CartCall), b[1], b[2]) : b \in ResponseBodies}
  \cup {[XAuraPair EXCEPT !.headers = HtmlHeaders]}

\* ---- traffic for the pairing of request actions and response entries:
\* Apex actions among framework actions and entries that are no actions
NearDescriptor == "aura://ApexActionController/ACTION$executeAll"

ComponentCall(id) == AuraAction(<< <<"id", Str(id)>> >>, ComponentDescriptor, EmptyObj)

ApexCall(id, method) == AuraAction(<< <<"id", Str(id)>> >>, ApexDescriptor, ApexParams("AccountCtl", method))

PositionRequests ==
  { << ComponentCall("1;a"), ApexCall("2;a", "load") >>,
    << ApexCall("1;a", "load"), ComponentCall("2;a"), ApexCall("3;a", "save") >>,
    << Str("ping"), Null, ApexCall("3;a", "save") >>,
    << AuraAction(<< <<"id", Str("1;a")>> >>, NearDescriptor, ApexParams("AccountCtl", "load")),
       ApexCall("2;a", "save") >>,
    << ComponentCall("1;a"), ComponentCall("2;a") >>,
    << ApexCall("1;a", "load") >> }

\* the response entries: each index has its own result, the third entry is
\* a failure, and the ids of the first two entries are those of the other
PositionEntries ==
  << AuraSuccess("2;a", Obj(<< <<"at", Num(0)>> >>)),
     AuraSuccess("1;a", Obj(<< <<"at", Num(1)>> >>)),
     Obj(<< <<"id", Str("3;a")>>, <<"state", Str("ERROR")>>,
            <<"error", Arr(<< Obj(<< <<"message", Str("Bad input")>> >>) >>)>> >>) >>

\* the whole response, its first entry alone, and a response without entries
PositionResponses ==
  { AuraResponse(PositionEntries),
    AuraResponse(SubSeq(PositionEntries, 1, 1)),
    TextJson(Obj(<< <<"context", Obj(<< <<"mode", Str("PROD")>> >>)>> >>)) }

PositionExchanges ==
  {[AuraRequest(actionList) EXCEPT !.body = body] :
     actionList \in PositionRequests, body \in PositionResponses}

\* ---- traffic for the shapes that give one record: web-runtime bodies and
\* record-service requests with actions arrays of several lengths, each
\* with a response that decodes and with responses that do not
RecordCall(id, recordId) ==
  AuraAction(<< <<"id", Str(id)>> >>, RecordUiDescriptor, Obj(<< <<"recordId", Str(recordId)>> >>))

\* the values under the key actions of a web-runtime body (none when empty)
CartActionLists == { <<>>, << <<"actions", Arr(<<>>)>> >>, << <<"actions", Arr(<< EmptyObj, EmptyObj >>)>> >> }

RecordActionLists ==
  { << RecordCall("1;a", "001A") >>,
    << RecordCall("1;a", "001A"), RecordCall("2;a", "001B") >>,
    << RecordCall("1;a", "001A"), RecordCall("2;a", "001B"), RecordCall("3;a", "001C") >> }

\* headers and text of a response: decoded, not declared as JSON, declared
\* and not parseable, and missing
SingularResponses(result) ==
  { <<JsonHeaders, TextJson(result)>>, <<HtmlHeaders, TextJson(result)>>,
    <<JsonHeaders, TextBad>>, <<JsonHeaders, NoText>> }

RecordResult(n) ==
  Obj(<< <<"actions", Arr([i \in 1..n |-> AuraSuccess(ToString(i) \o ";a", Obj(<< <<"apiName", Str("Account")>> >>))])>> >>)

SingularExchanges ==
  {Exchange(UrlWebruntime, Undef, Str(JsonMime), TextJson(Obj(CartCall[2] \o acts)), b[1], b[2]) :
     acts \in CartActionLists, b \in SingularResponses(CartResult)}
  \cup
  {Exchange(UrlRecordUi, Undef, Str(FormMime), AuraForm(Obj(<< <<"actions", Arr(acts)>> >>)), b[1], b[2]) :
     acts \in RecordActionLists, b \in SingularResponses(RecordResult(2))}
  \cup
  {Exchange(UrlAura, Undef, Str(FormMime),
            AuraForm(Obj(<< <<"actions", Arr(<< RecordCall("1;a", "001A"), RecordCall("2;a", "001B") >>)>> >>)),
            b[1], b[2]) : b \in SingularResponses(RecordResult(2))}

\* ---- traffic for the choice of the error container: one Apex action whose
\* response entry is in the failure state, with the fields below
ErrorContainers ==
  { << <<"error", Arr(<< Obj(<< <<"message", Str("from error[0]")>> >>) >>)>>,
       <<"errors", Arr(<< Obj(<< <<"message", Str("from errors[0]")>> >>) >>)>> >>,
    << <<"error", Arr(<< Str("plain text") >>)>> >>,
    << <<"error", Arr(<<>>)>>, <<"errors", Arr(<< Obj(<< <<"message", Str("from errors[0]")>>, <<"code", Num(7)>> >>) >>)>> >>,
    << <<"error", Obj(<< <<"message", Str("from error")>> >>)>>,
       <<"errors", Arr(<< Obj(<< <<"message", Str("from errors[0]")>> >>) >>)>> >>,
    << <<"error", Obj(<< <<"message", Str("from error")>>, <<"code", Num(7)>> >>)>> >>,
    << <<"error", Str("from error")>>, <<"errors", Arr(<<>>)>> >>,
    << <<"error", Str("from error")>> >>,
    << <<"error", Arr(<<>>)>> >>,
    << <<"errors", Arr(<<>>)>> >>,
    << <<"error", Null>> >>,
    <<>> }

ContainerExchanges ==
  {[AuraRequest(<< ApexCall("8;a", "submit") >>)
    EXCEPT !.body = AuraResponse(<< Obj(<< <<"id", Str("8;a")>>, <<"state", Str("ERROR")>> >> \o c) >>)] :
     c \in ErrorContainers}

\* ---- traffic of a site whose path prefix contains /aura: web-runtime
\* calls of the site, and a gateway call of the site
UrlSiteWebruntime == "/auraportal/webruntime/api/apex/execute?language=en-US"
UrlSiteAura == "/auraportal/s/sfsites/aura?r=1&aura.ApexAction.execute=1"

SiteExchanges ==
  { [WebruntimeRequest("CartController") EXCEPT !.url = UrlSiteWebruntime],
    [WebruntimeRequest("CartController") EXCEPT !.url = UrlWebruntime],
    GatewayPayload(UrlSiteAura, ApexDescriptor) }

\* ---- traffic and input for the table of the panel
\* three GraphQL operations in one exchange: a query, a mutation and a
\* subscription
XGraphqlTriple ==
  GatewayCall(UrlGraphQL,
    << AuraAction(<< <<"id", Str("1;a")>> >>, GraphqlDescriptor, Obj(<< <<"query", Str("{ accounts }")>> >>)),
       AuraAction(<< <<"id", Str("2;a")>> >>, GraphqlDescriptor, Obj(<< <<"query", Str("mutation save { ok }")>> >>)),
       AuraAction(<< <<"id", Str("3;a")>> >>, GraphqlDescriptor, Obj(<< <<"query", Str("subscription onCase { id }")>> >>)) >>,
    << AuraSuccess("1;a", Obj(<< <<"name", Str("Acme")>> >>)),
       AuraSuccess("2;a", Obj(<< <<"ok", Bool(TRUE)>> >>)),
       AuraSuccess("3;a", Obj(<< <<"ok", Bool(TRUE)>> >>)) >>)

PanelExchanges == {XGraphqlTriple}

\* the keys pressed, the headers clicked and the texts typed
KeyNames == {"ArrowRight", "ArrowLeft", "Delete", "Backspace", "Enter"}
SortColumns == {"timestamp", "method"}
FilterColumns == {"method"}
FilterTexts == {"", "MUT"}
SearchTexts == {"", " Acme "}

Exchanges == {XAuraPair, XWebruntime}

Next ==
  \/ \E x \in Exchanges : onRequestFinished(x, MaxExchanges)
  \/ postToPanel
  \/ onShown
  \/ handleMessage
  \/ Clear
  \/ \E json \in MappingSources : SettingsChanged(json)

Spec == Init /\ [][Next]_vars

\* the same machine fed with the dispatch traffic
NextDispatch ==
  \/ \E x \in DispatchExchanges : onRequestFinished(x, MaxCalls)
  \/ postToPanel
  \/ onShown
  \/ handleMessage
  \/ Clear
  \/ \E json \in MappingSources : SettingsChanged(json)

SpecDispatch == Init /\ [][NextDispatch]_vars

\* the same machine fed with failed Aura entries
NextErrors ==
  \/ \E x \in ErrorExchanges : onRequestFinished(x, MaxCalls)
  \/ postToPanel
  \/ onShown
  \/ handleMessage
  \/ Clear
  \/ \E json \in MappingSources : SettingsChanged(json)

SpecErrors == Init /\ [][NextErrors]_vars

\* the same machine fed with Aura boxcars: id fields and mixed actions
NextAura ==
  \/ \E x \in AuraExchanges : onRequestFinished(x, MaxCalls)
  \/ postToPanel
  \/ onShown
  \/ handleMessage
  \/ Clear
  \/ \E json \in MappingSources : SettingsChanged(json)

SpecAura == Init /\ [][NextAura]_vars

\* the same machine fed with web-runtime calls and mapping sources
NextWeb ==
  \/ \E x \in WebExchanges : onRequestFinished(x, MaxCalls)
  \/ postToPanel
  \/ onShown
  \/ handleMessage
  \/ Clear
  \/ \E json \in WebMappingSources : SettingsChanged(json)

SpecWeb == Init /\ [][NextWeb]_vars

\* the same machine fed with Visualforce remoting batches
NextVf ==
  \/ \E x \in VfExchanges : onRequestFinished(x, MaxCalls)
  \/ postToPanel
  \/ onShown
  \/ handleMessage
  \/ Clear
  \/ \E json \in MappingSources : SettingsChanged(json)

SpecVf == Init /\ [][NextVf]_vars

\* the extension on GraphQL and record-service traffic
NextGraphql ==
  \/ \E x \in GraphqlExchanges : onRequestFinished(x, MaxCalls)
  \/ postToPanel
  \/ onShown
  \/ handleMessage
  \/ Clear
  \/ \E json \in MappingSources : SettingsChanged(json)

SpecGraphql == Init /\ [][NextGraphql]_vars

\* the extension on traffic with every kind of request and response body
NextDecode ==
  \/ \E x \in DecodeExchanges : onRequestFinished(x, MaxCalls)
  \/ postToPanel
  \/ onShown
  \/ handleMessage
  \/ Clear
  \/ \E json \in MappingSources : SettingsChanged(json)

SpecDecode == Init /\ [][NextDecode]_vars

\* the extension with Apex actions at several places of the actions array
NextPosition ==
  \/ \E x \in PositionExchanges : onRequestFinished(x, MaxCalls)
  \/ postToPanel
  \/ onShown
  \/ handleMessage
  \/ Clear
  \/ \E json \in MappingSources : SettingsChanged(json)

SpecPosition == Init /\ [][NextPosition]_vars

\* the extension with web-runtime and record-service exchanges
NextSingular ==
  \/ \E x \in SingularExchanges : onRequestFinished(x, MaxCalls)
  \/ postToPanel
  \/ onShown
  \/ handleMessage
  \/ Clear
  \/ \E json \in MappingSources : SettingsChanged(json)

SpecSingular == Init /\ [][NextSingular]_vars

\* the extension with failed entries that carry their error in several ways
NextContainers ==
  \/ \E x \in ContainerExchanges : onRequestFinished(x, MaxCalls)
  \/ postToPanel
  \/ onShown
  \/ handleMessage
  \/ Clear
  \/ \E json \in MappingSources : SettingsChanged(json)

SpecContainers == Init /\ [][NextContainers]_vars

\* the extension with the exchanges of a site under a prefix with /aura
NextSites ==
  \/ \E x \in SiteExchanges : onRequestFinished(x, MaxCalls)
  \/ postToPanel
  \/ onShown
  \/ handleMessage
  \/ Clear
  \/ \E json \in MappingSources : SettingsChanged(json)

SpecSites == Init /\ [][NextSites]_vars

\* the extension with the user at the table of the panel
NextPanel ==
  \/ \E x \in PanelExchanges : onRequestFinished(x, MaxCalls)
  \/ postToPanel
  \/ onShown
  \/ handleMessage
  \/ Clear
  \/ \E json \in MappingSources : SettingsChanged(json)
  \/ \E key \in KeyNames : handleKey(key)
  \/ \E i \in 0..(Len(actions) - 1) : rowClick(i)
  \/ \E col \in SortColumns : sortClick(col)
  \/ \E col \in FilterColumns : \E text \in FilterTexts : setFilter(col, text)
  \/ \E text \in SearchTexts : setBodySearch(text)

SpecPanel == Init /\ [][NextPanel]_vars

\* the panel with the buttons of its toolbar and of the detail view
NextToolbar ==
  \/ NextPanel
  \/ \E back \in BOOLEAN : stepButton(back)
  \/ closeDetail

SpecToolbar == Init /\ [][NextToolbar]_vars

\* the settings store with the pages that save to it and follow it; the
\* calls of a page are served in the order it made them, and its callbacks
\* and events run in the order the browser queued them
NextSettings ==
  \/ \E c \in Contexts : mount(c)
  \/ \E c \in Contexts : \E newSettings \in SaveInputs(c) : save(c, newSettings)
  \/ storageLocalGet
  \/ storageLocalSet
  \/ \E c \in Contexts : onChanged(c)
  \/ \E c \in Contexts : loadAndNotify(c)
  \/ \E c \in Contexts : saveSettings(c)
  \/ \E c \in Contexts : saved(c)

SpecSettings == Init /\ [][NextSettings]_vars

\* ------------------------------------------------------------ properties
\* the records of run r, and the exchange it handled
Recs(r) == runs[r].out.recs
Handled(r) == runs[r].msg.request

\* two reports of the same exchange content (the Request objects differ)
SameExchange(x, y) == [x EXCEPT !.xid = 0] = [y EXCEPT !.xid = 0]

\* a record without id and timestamp
Core(a) == [a EXCEPT !.id = Undef, !.timestamp = 0, !.fullRequest.xid = 0]

\* a record without id, timestamp and batch id
CoreNoBatch(a) == [Core(a) EXCEPT !.boxcarId = Undef]

\* run r is an Aura boxcar that emitted more than one record
AuraBoxcar(r) == runs[r].out.shape = "AuraBatch" /\ Len(Recs(r)) > 1

\* C1: every record in the call log has an id that no other record in the
\* log has
C1_UniqueIds ==
  \A i, j \in 1..Len(actions) : i # j => actions[i].id # actions[j].id

\* C2: when exactly one record is produced from an exchange, that record
\* carries no batch id
C2_SingleRecordNoBatch ==
  \A r \in 1..Len(runs) : Len(Recs(r)) = 1 => Recs(r)[1].boxcarId = Undef

C6_SameRecordsTwice ==
  \A r, q \in 1..Len(runs) :
    (r < q /\ SameExchange(Handled(r), Handled(q)) /\ runs[r].msg.type = runs[q].msg.type)
      => /\ Len(Recs(r)) = Len(Recs(q))
         /\ \A k \in 1..Len(Recs(r)) : Core(Recs(r)[k]) = Core(Recs(q)[k])

\* C6: handling the same exchange content twice under the same class-name
\* mapping yields the same number of records, equal position by position in
\* every field except id, timestamp and batch id; a record carries a batch
\* id in one run exactly when it does in the other
C6_SameRecordsButBatch ==
  \A r, q \in 1..Len(runs) :
    (/\ r < q
     /\ SameExchange(Handled(r), Handled(q))
     /\ runs[r].msg.type = runs[q].msg.type
     /\ runs[r].mappingsJson = runs[q].mappingsJson)
      => /\ Len(Recs(r)) = Len(Recs(q))
         /\ \A k \in 1..Len(Recs(r)) :
              /\ CoreNoBatch(Recs(r)[k]) = CoreNoBatch(Recs(q)[k])
              /\ (Recs(r)[k].boxcarId = Undef) = (Recs(q)[k].boxcarId = Undef)

\* C6 witness: the same boxcar content was handled twice, at different clock
\* readings, and each run emitted two records
C6_HandledTwice ==
  \E r, q \in 1..Len(runs) :
    /\ r < q
    /\ SameExchange(Handled(r), Handled(q))
    /\ runs[r].t # runs[q].t
    /\ Len(Recs(r)) = 2 /\ Len(Recs(q)) = 2

\* the url matches one of the endpoint patterns
Recognized(url) ==
  Includes(url, "/aura") \/ Includes(url, "/webruntime/api/apex/execute")
    \/ Includes(url, "/apexremote")

\* the envelopes on their way to the handler
InFlight ==
  fetching \cup {bufferedRequests[i] : i \in 1..Len(bufferedRequests)}
           \cup {inbox[i] : i \in 1..Len(inbox)}

FirstMatch(url, reqPostData) ==
  IF Includes(url, "/webruntime/api/apex/execute") THEN "WebruntimeSingle"
  ELSE IF Includes(url, "/apexremote") THEN "VfRemoting"
  ELSE IF Includes(url, "/aura") /\ Includes(url, "executeGraphQL") THEN "GraphQL"
  ELSE IF Includes(url, "/aura")
            /\ (Includes(url, "aura.RecordUi.") \/ UiDescriptorDetected(UiData(reqPostData)))
       THEN "UiRecordApi"
  ELSE "AuraBatch"

\* the id prefixes by which the records of four of the normalizers are told
IdPrefix ==
  [WebruntimeSingle |-> "webruntime-", VfRemoting |-> "vfremoting-",
   GraphQL |-> "graphql-", UiRecordApi |-> "uirecordapi-"]

\* the records of run r are those of the normalizer named shape
RecordsOf(r, shape) ==
  \A k \in 1..Len(Recs(r)) :
    IF shape = "AuraBatch"
    THEN \A s \in DOMAIN IdPrefix : ~StartsWith(Recs(r)[k].id, IdPrefix[s])
    ELSE StartsWith(Recs(r)[k].id, IdPrefix[shape])

\* C5: for every envelope whose request decoded, one normalizer runs, the
\* first match in the order web-runtime path, remoting path, GraphQL,
\* UiRecordApi, AuraBatch, and the records appended are that normalizer's
C5_FirstMatchRuns ==
  \A r \in 1..Len(runs) :
    LET reqPostData == ParseRequest(Handled(r))
    IN (Truthy(reqPostData) /\ TypeofObject(reqPostData))
         => /\ runs[r].out.shape = FirstMatch(Handled(r).url, reqPostData)
            /\ RecordsOf(r, runs[r].out.shape)

\* C5 witness: a url with both the web-runtime and the remoting path was
\* handled as WebruntimeSingle and gave one record of that normalizer
C5_OverlapHandled ==
  \E r \in 1..Len(runs) :
    /\ Handled(r).url = UrlWebVf
    /\ runs[r].out.shape = "WebruntimeSingle"
    /\ Len(Recs(r)) = 1 /\ StartsWith(Recs(r)[1].id, "webruntime-")

\* the response entry behind a record carries a failure whose error array
\* starts with a structured object
StructuredFailure(a) ==
  /\ Get(a.rawResponse, "state") = Str("ERROR")
  /\ IsArray(Get(a.rawResponse, "error")) /\ Length(Get(a.rawResponse, "error")) > 0
  /\ TypeofObject(At(Get(a.rawResponse, "error"), 0))
  /\ At(Get(a.rawResponse, "error"), 0) # Null

\* every key of the object o is a key of the result of a, with o's value
Carries(a, o) == \A i \in 1..Len(Keys(o)) : Get(a.response, Keys(o)[i]) = Get(o, Keys(o)[i])

\* C7: the record of a failed Aura entry whose error array starts with a
\* structured object has that object's message as its error message, and its
\* result holds every field of the error object and every key of the return
\* value, each with its own value
C7_ErrorFlattened ==
  \A r \in 1..Len(runs) : \A k \in 1..Len(Recs(r)) :
    LET a == Recs(r)[k]
        errorObj == At(Get(a.rawResponse, "error"), 0)
        returnValue == Get(a.rawResponse, "returnValue")
    IN (runs[r].out.shape = "AuraBatch" /\ StructuredFailure(a)) =>
         /\ IsString(Get(errorObj, "message")) => a.error = Get(errorObj, "message")
         /\ Carries(a, errorObj)
         /\ IsObjectLike(returnValue) => Carries(a, returnValue)

\* the candidates for the id of an Aura record, in the order of the claim
IdCandidates(a) ==
  LET keys == Keys(Get(a.fullResponse, "perfSummary"))
      K == {i \in 1..Len(keys) : MatchesIdKey(keys[i])}
  IN << Get(a.rawRequest, "id"), Get(a.rawRequest, "actionId"),
        Get(a.rawResponse, "id"), Get(a.rawResponse, "actionId"),
        IF K = {} THEN Undef ELSE Str(keys[CHOOSE i \in K : \A j \in K : i <= j]) >>

\* the first candidate that is a string, undefined when there is none
FirstString(c) ==
  LET S == {i \in 1..Len(c) : IsString(c[i])}
  IN IF S = {} THEN Undef ELSE c[CHOOSE i \in S : \A j \in S : i <= j]

\* exchangeId + "-" + index for the record at position k of run r
PositionalId(r, k) == ExchangeId(Handled(r)) \o "-" \o ToString(k - 1)

\* every action of the request of run r produced a record
AllQualified(r) ==
  /\ runs[r].out.shape = "AuraBatch"
  /\ Len(Recs(r)) = Length(Get(ParseRequest(Handled(r)), "actions"))

\* C8 as stated: the id of an Aura record is the first candidate that is a
\* string, and exchangeId-index when no candidate is a string
C8_FirstAvailableId ==
  \A r \in 1..Len(runs) : \A k \in 1..Len(Recs(r)) :
    AllQualified(r) =>
      LET first == FirstString(IdCandidates(Recs(r)[k]))
      IN Recs(r)[k].id = IF first = Undef THEN PositionalId(r, k) ELSE first[2]

\* C8: the id of an Aura record is the first candidate that is a string when
\* that string is not empty; when it is empty, or no candidate is a string,
\* the id is exchangeId-index
C8_FirstNonEmptyId ==
  \A r \in 1..Len(runs) : \A k \in 1..Len(Recs(r)) :
    AllQualified(r) =>
      LET first == FirstString(IdCandidates(Recs(r)[k]))
      IN Recs(r)[k].id = IF first = Undef \/ first = Str("") THEN PositionalId(r, k)
                         ELSE first[2]

\* C8 witness: a record whose request action has the string id abc123 and
\* whose response entry has another id took the request's id
C8_RequestIdWon ==
  \E r \in 1..Len(runs) :
    /\ AllQualified(r) /\ Len(Recs(r)) = 1
    /\ Get(Recs(r)[1].rawRequest, "id") = Str("abc123")
    /\ Get(Recs(r)[1].rawResponse, "id") = Str("rid-9")
    /\ Recs(r)[1].id = "abc123"

\* the names the mapping source json gives for id: the Name of each record
\* whose Id is id, or is longer than 15 characters and starts with id
MappedNames(json, id) ==
  LET records == IF JsonParses(json)
                 THEN Get(Get(JsonValue(json), "result"), "records") ELSE Undef
      hit(record) == /\ IsString(Get(record, "Id")) /\ IsString(Get(record, "Name"))
                     /\ \/ Get(record, "Id")[2] = id
                        \/ /\ Len(Get(record, "Id")[2]) > 15
                           /\ SubSeq(Get(record, "Id")[2], 1, 15) = id
  IN IF IsArray(records)
     THEN {Get(records[2][i], "Name") : i \in {j \in 1..Length(records) : hit(records[2][j])}}
     ELSE {}

\* run r handled a web-runtime call with an obfuscated class name
Obfuscated(r) ==
  LET classname == Get(ParseRequest(Handled(r)), "classname")
  IN /\ runs[r].out.shape = "WebruntimeSingle" /\ Len(Recs(r)) = 1
     /\ IsString(classname)
     /\ StartsWith(classname[2], "@") /\ Includes(classname[2], "/")

\* the text of s after its first '/', up to the next '/'
OpaqueId(s) ==
  LET i == CHOOSE n \in 1..Len(s) : SubSeq(s, n, n) = "/" /\ \A m \in 1..(n - 1) : SubSeq(s, m, m) # "/"
      ends == {n \in (i + 1)..Len(s) : SubSeq(s, n, n) = "/"}
      stop == IF ends = {} THEN Len(s) + 1 ELSE CHOOSE n \in ends : \A m \in ends : n <= m
  IN SubSeq(s, i + 1, stop - 1)

\* C9 as stated: for an obfuscated web-runtime class name, the record has
\* the mapped name and no needsMapping flag when the mapping in force holds
\* the opaque id, and otherwise the opaque id with needsMapping true
C9_ResolvedOrFlagged ==
  \A r \in 1..Len(runs) :
    Obfuscated(r) =>
      LET a == Recs(r)[1]
          id == OpaqueId(Get(ParseRequest(Handled(r)), "classname")[2])
          names == MappedNames(runs[r].mappingsJson, id)
      IN IF names # {}
         THEN a.apexClass \in names /\ ~Has(a.context, "needsMapping")
         ELSE a.apexClass = Str(id) /\ Get(a.context, "needsMapping") = Bool(TRUE)

\* C9: for an obfuscated web-runtime class name the record's class is the
\* mapped name, without needsMapping, when the mapping in force holds the
\* opaque id, and otherwise the opaque id (the whole class name when the
\* opaque id is empty) with needsMapping true; a non-empty namespace of the
\* request is put in front of either, followed by a dot
C9_ResolvedOrFlaggedWithNamespace ==
  \A r \in 1..Len(runs) :
    Obfuscated(r) =>
      LET a == Recs(r)[1]
          classname == Get(ParseRequest(Handled(r)), "classname")[2]
          namespace == Get(ParseRequest(Handled(r)), "namespace")
          id == OpaqueId(classname)
          names == MappedNames(runs[r].mappingsJson, id)
          qualified(name) == IF IsString(namespace) /\ namespace # Str("")
                             THEN Str(namespace[2] \o "." \o name) ELSE Str(name)
      IN IF names # {}
         THEN /\ \E name \in names : a.apexClass = qualified(name[2])
              /\ ~Has(a.context, "needsMapping")
         ELSE /\ a.apexClass = qualified(IF id = "" THEN classname ELSE id)
              /\ Get(a.context, "needsMapping") = Bool(TRUE)

\* C9 witness: a 15-character opaque id was resolved through a mapping that
\* lists the class under its 18-character id
C9_ResolvedByPrefix ==
  \E r \in 1..Len(runs) :
    /\ Obfuscated(r)
    /\ Get(ParseRequest(Handled(r)), "classname") = Str(ObfuscatedClass)
    /\ runs[r].mappingsJson = MappingJson(ClassId18, "CartController")
    /\ Recs(r)[1].apexClass = Str("CartController")
    /\ ~Has(Recs(r)[1].context, "needsMapping")

\* run r handled a remoting request that is an array of at least two call
\* objects, with a response array of the same length
VfBatch(r) ==
  LET calls == ParseRequest(Handled(r))
      responses == ParseResponse(Handled(r))
  IN /\ runs[r].out.shape = "VfRemoting"
     /\ IsArray(calls) /\ Length(calls) >= 2
     /\ \A i \in 1..Length(calls) : IsObjectLike(calls[2][i])
     /\ IsArray(responses) /\ Length(responses) = Length(calls)

\* the parts of C10 that do not concern the error message: one record per
\* call, in request order, under one batch id, class and method from the
\* call and the result from the response at the same position
VfPositional(r) ==
  LET calls == ParseRequest(Handled(r))[2]
      responses == ParseResponse(Handled(r))[2]
  IN /\ Len(Recs(r)) = Len(calls)
     /\ IsString(Recs(r)[1].boxcarId) /\ Recs(r)[1].boxcarId # Str("")
     /\ \A i \in 1..Len(Recs(r)) :
          /\ Recs(r)[i].boxcarId = Recs(r)[1].boxcarId
          /\ Recs(r)[i].apexClass = Get(calls[i], "action")
          /\ Recs(r)[i].method = Get(calls[i], "method")
          /\ Recs(r)[i].rawRequest = calls[i]
          /\ Recs(r)[i].response = responses[i]
          /\ ~Has(responses[i], "error") => Recs(r)[i].error = Null

\* C10 as stated: a remoting batch gives one record per call, positionally,
\* under one batch id, without error message when the response at that
\* position has no error field, and with response[i].error as the error
\* message when that is a string
C10_VfBatch ==
  \A r \in 1..Len(runs) :
    VfBatch(r) =>
      /\ VfPositional(r)
      /\ \A i \in 1..Len(Recs(r)) :
           LET e == Get(ParseResponse(Handled(r))[2][i], "error")
           IN IsString(e) => Recs(r)[i].error = e

\* C10: as above, with response[i].error as the error message when that is
\* a non-empty string, and no error message when it is the empty string
C10_VfBatchNonEmptyError ==
  \A r \in 1..Len(runs) :
    VfBatch(r) =>
      /\ VfPositional(r)
      /\ \A i \in 1..Len(Recs(r)) :
           LET e == Get(ParseResponse(Handled(r))[2][i], "error")
           IN IsString(e) => Recs(r)[i].error = IF e = Str("") THEN Null ELSE e

\* C10 witness: a batch of two calls whose first response has no error
\* field and whose second has the error text bad gave two records
C10_BatchOfTwo ==
  \E r \in 1..Len(runs) :
    /\ VfBatch(r) /\ Len(Recs(r)) = 2
    /\ ~Has(ParseResponse(Handled(r))[2][1], "error")
    /\ Recs(r)[1].error = Null
    /\ Recs(r)[2].error = Str("bad")
    /\ Recs(r)[1].boxcarId = Recs(r)[2].boxcarId

\* the query text of a GraphQL action's params: the first string among
\* queryInput.query, query, graphQL and gql, undefined when there is none
LocatedQuery(params) ==
  FirstString(<< Get(Get(params, "queryInput"), "query"), Get(params, "query"),
                 Get(params, "graphQL"), Get(params, "gql") >>)

\* the operation kind the leading keyword of the query text q stands for
OperationKind(q) ==
  IF IsString(q) /\ StartsWith(ToLowerCase(Trim(q[2])), "mutation") THEN "mutation"
  ELSE IF IsString(q) /\ StartsWith(ToLowerCase(Trim(q[2])), "subscription") THEN "subscription"
  ELSE "query"

\* C11: every record of the GraphQL normalizer has the class GraphQL, the
\* operation kind of the located query text as its method (query when no
\* text is found), and the located query text as the query of its request
C11_GraphqlRecord ==
  \A r \in 1..Len(runs) : \A k \in 1..Len(Recs(r)) :
    runs[r].out.shape = "GraphQL" =>
      LET a == Recs(r)[k]
          q == LocatedQuery(Get(a.rawRequest, "params"))
      IN /\ a.apexClass = Str("GraphQL")
         /\ a.method = Str(OperationKind(q))
         /\ IsString(q) => Get(a.request, "query") = q

\* the envelopes posted so far that were delivered to the panel window, in
\* the order of delivery: those handled, then those waiting in the inbox
Delivered == [i \in 1..Len(runs) |-> runs[i].msg] \o inbox

\* C12: every step leaves the delivered envelopes followed by the buffered
\* ones as they are, or adds at their end the one envelope that the step
\* posts; the buffer is empty whenever the window is attached, so that the
\* envelopes buffered before are delivered, in order, ahead of later ones
C12_DeliveredInOrder ==
  [][ /\ panelWindow' => bufferedRequests' = <<>>
      /\ \/ Delivered' \o bufferedRequests' = Delivered \o bufferedRequests
         \/ \E msg \in fetching :
              /\ fetching' = fetching \ {msg}
              /\ Delivered' \o bufferedRequests' = Append(Delivered \o bufferedRequests, msg)
      /\ \E k \in 0..Len(Delivered') : SubSeq(Delivered', 1, k) = Delivered ]_vars

\* C12 witness: two envelopes wait in the buffer for the window to attach,
\* in the order they were posted, which is not the order of completion
C12_TwoBuffered ==
  /\ ~panelWindow /\ Len(bufferedRequests) = 2 /\ inbox = <<>>
  /\ bufferedRequests[1].request.xid = 2 /\ bufferedRequests[2].request.xid = 1

\* C13: for every completed exchange whose url matches an endpoint pattern
\* (/aura, /webruntime/api/apex/execute, /apexremote) the adapter has
\* started to fetch the body: an envelope of that exchange is on its way to
\* the handler or was handled
C13_RecognizedForwarded ==
  \A i \in 1..Len(completed) :
    Recognized(completed[i].url) =>
      \/ \E msg \in InFlight : msg.request.xid = i
      \/ \E r \in 1..Len(runs) : Handled(r).xid = i

\* the request of exchange x declares a form-encoded body
FormEncoded(x) == IsString(x.mimeType) /\ Includes(x.mimeType[2], FormMime)

\* requestJson: the JSON parse of the message field of a form-encoded body,
\* of the raw body otherwise; undefined when that text is missing, does not
\* parse or yields no object
RequestJson(x) ==
  LET text == IF FormEncoded(x) THEN FormGet(x.text, "message") ELSE x.text
  IN IF JsonParses(text) /\ IsObjectLike(JsonValue(text)) THEN JsonValue(text) ELSE Undef

\* C14: a run whose requestJson is absent is skipped without reaching the
\* handler's catch and emits no record, and the record of a web-runtime run
\* has requestJson as its raw request
C14_RequestDecoding ==
  \A r \in 1..Len(runs) :
    LET requestJson == RequestJson(Handled(r))
    IN /\ requestJson = Undef =>
            runs[r].out.shape = "skipped" /\ ~runs[r].out.threw /\ Recs(r) = <<>>
       /\ requestJson # Undef /\ isWebruntimeCall(Handled(r).url) =>
            Len(Recs(r)) = 1 /\ Recs(r)[1].rawRequest = requestJson

\* C14 witness: a form-encoded request without message field whose raw body
\* is a JSON object was handled and gave no record
C14_RawBodyNotTried ==
  \E r \in 1..Len(runs) :
    /\ FormEncoded(Handled(r))
    /\ JsonParses(Handled(r).text) /\ IsObjectLike(JsonValue(Handled(r).text))
    /\ Recs(r) = <<>>

\* the response of exchange x declares JSON: it has a content-type header
\* whose value names application/json
DeclaresJson(x) ==
  \E i \in 1..Len(x.headers) :
    ToLowerCase(x.headers[i][1]) = "content-type" /\ Includes(x.headers[i][2], JsonMime)

\* C15: a record has a responseJson only when the response declares JSON
\* and its body parses, and it is the parsed body; the records of a
\* response that does not declare JSON have no responseJson, an empty
\* result and no error message
C15_ResponseDecoding ==
  \A r \in 1..Len(runs) : \A k \in 1..Len(Recs(r)) :
    LET a == Recs(r)[k]
        x == Handled(r)
    IN /\ a.fullResponse # Null =>
            DeclaresJson(x) /\ JsonParses(x.body) /\ a.fullResponse = JsonValue(x.body)
       /\ ~DeclaresJson(x) =>
            a.fullResponse = Null /\ a.response = EmptyObj /\ a.error = Null

\* C15 witness: a record was made of an exchange whose response body is a
\* JSON text declared as text/html
C15_UndeclaredJsonIgnored ==
  \E r \in 1..Len(runs) :
    /\ Len(Recs(r)) = 1 /\ JsonParses(Handled(r).body)
    /\ ContentType(Handled(r).headers) = Str("text/html")
    /\ Recs(r)[1].fullResponse = Null

\* the params of the request action of record a resolve no class name and
\* no method name
Unnamed(a) ==
  LET params == Get(a.rawRequest, "params")
  IN /\ ~IsString(Get(params, "classname")) /\ ~IsString(Get(params, "className"))
     /\ ~IsString(Get(params, "method")) /\ ~IsString(Get(params, "methodName"))

\* C20: the record of a qualifying Aura action whose params resolve neither
\* a class name nor a method name has a non-empty diagnostic error message
C20_UnnamedDiagnosed ==
  \A r \in 1..Len(runs) : \A k \in 1..Len(Recs(r)) :
    (runs[r].out.shape = "AuraBatch" /\ Unnamed(Recs(r)[k])) =>
      IsString(Recs(r)[k].error) /\ Recs(r)[k].error # Str("")

\* the decoded payload p has an action whose descriptor names the GraphQL
\* execution
HasGraphqlDescriptor(p) ==
  \E i \in 1..Length(Get(p, "actions")) :
    LET descriptor == Get(Get(p, "actions")[2][i], "descriptor")
    IN IsString(descriptor) /\ Includes(descriptor[2], "executeGraphQL")

\* C18: a handled exchange on the primary gateway path (and on no path that
\* is tested before it) with a decoded payload is classified GraphQL
\* exactly when the payload has an action descriptor naming the GraphQL
\* execution
C18_GraphqlByPayload ==
  \A r \in 1..Len(runs) :
    LET url == Handled(r).url
        p == ParseRequest(Handled(r))
    IN (/\ Includes(url, "/aura") /\ ~isWebruntimeCall(url) /\ ~isVfRemotingCall(url)
        /\ IsObjectLike(p)) =>
         (runs[r].out.shape = "GraphQL" <=> HasGraphqlDescriptor(p))

\* C19: no record of the web-runtime, GraphQL and record-service
\* normalizers has a batch id
C19_SingularShapesNoBatch ==
  \A r \in 1..Len(runs) : \A k \in 1..Len(Recs(r)) :
    runs[r].out.shape \in {"WebruntimeSingle", "GraphQL", "UiRecordApi"} =>
      Recs(r)[k].boxcarId = Undef

\* C19 witness: a GraphQL exchange with two actions gave two records, both
\* without batch id
C19_TwoOperationsNoBatch ==
  \E r \in 1..Len(runs) :
    /\ runs[r].out.shape = "GraphQL" /\ Len(Recs(r)) = 2
    /\ Recs(r)[1].boxcarId = Undef /\ Recs(r)[2].boxcarId = Undef

CurrentRow ==
  LET hits == {i \in 1..Len(filteredSorted) : Str(filteredSorted[i].id) = expandedId}
  IN IF hits = {} THEN 0
     ELSE IF selectedIdx # Null /\ selectedIdx[2] + 1 \in hits THEN selectedIdx[2] + 1
     ELSE CHOOSE i \in hits : \A j \in hits : i <= j

\* after the step, row q of the table is selected and is the one whose
\* detail view is open
Opened(q) ==
  /\ selectedIdx' = Num(q - 1)
  /\ expandedId' = Str(filteredSorted[q].id)
  /\ \A i \in 1..(q - 1) : filteredSorted[i].id # filteredSorted[q].id

ExecutePlaces(r) ==
  LET acts == Get(ParseRequest(Handled(r)), "actions")
  IN SelectSeq(Indices(Length(acts)),
       LAMBDA i : IsObjectLike(acts[2][i]) /\ Get(acts[2][i], "descriptor") = Str(ApexDescriptor))

\* the record a comes from the request entry at place i (counted from 1) of
\* run r and from the response entry at the same place
PairedAt(r, a, i) ==
  LET entry == At(Get(ParseResponse(Handled(r)), "actions"), i - 1)
      returnValue == Get(entry, "returnValue")
      failed == IsObjectLike(entry) /\ Get(entry, "state") = Str("ERROR")
  IN /\ a.rawRequest = Get(ParseRequest(Handled(r)), "actions")[2][i]
     /\ a.rawResponse = (IF IsObjectLike(entry) THEN entry ELSE EmptyObj)
     /\ (a.error # Null) <=> failed
     /\ ~failed => a.response = (IF IsObjectLike(returnValue) THEN returnValue ELSE EmptyObj)

\* C21: an Aura exchange with a decoded response gives one record for each
\* request entry whose descriptor is the execute descriptor and none for the
\* others, and the record of the entry at index i has the raw response, the
\* failure state and the result of the response entry at index i
C21_PositionalResponse ==
  \A r \in 1..Len(runs) :
    (runs[r].out.shape = "AuraBatch" /\ ParseResponse(Handled(r)) # Null
       /\ IsArray(Get(ParseRequest(Handled(r)), "actions"))) =>
      /\ Len(Recs(r)) = Len(ExecutePlaces(r))
      /\ \A k \in 1..Len(Recs(r)) : PairedAt(r, Recs(r)[k], ExecutePlaces(r)[k])

\* C21 witness: a request of three entries whose second is a framework
\* action gave two records, the second of them from the third entry with
\* the failure of the third response entry
C21_SkippedEntryKeepsIndex ==
  \E r \in 1..Len(runs) :
    /\ runs[r].out.shape = "AuraBatch" /\ ExecutePlaces(r) = <<1, 3>>
    /\ Len(Recs(r)) = 2
    /\ Recs(r)[2].rawResponse = PositionEntries[3]
    /\ Recs(r)[2].error = Str("Bad input")
    /\ Recs(r)[1].response = Obj(<< <<"at", Num(0)>> >>)

\* C22: the query text that the GraphQL normalizer works with (its length is
\* in the context of the record) is the first string among
\* queryInput.query, query, graphQL and gql of the action's params
C22_QueryLocatedInOrder ==
  \A r \in 1..Len(runs) : \A k \in 1..Len(Recs(r)) :
    LET a == Recs(r)[k]
        params == Get(a.rawRequest, "params")
        q == LocatedQuery(params)
    IN (runs[r].out.shape = "GraphQL" /\ IsObjectLike(params) /\ IsString(q)) =>
         Get(a.context, "queryLength") = Num(Len(q[2]))

ContainerError(c) ==
  IF IsObjectLike(c)
  THEN [msg |-> IF IsString(Get(c, "message")) THEN Get(c, "message") ELSE Str(UnknownApexError),
        details |-> c]
  ELSE [msg |-> Str(JsString(c)), details |-> Obj(<< <<"message", Str(JsString(c))>> >>)]

\* message and details of a failed response entry: the first element of a
\* non-empty error array, else the first element of a non-empty errors
\* array, else a singular error object, else a singular error string, else
\* the generic message
ChosenError(entry) ==
  LET error == Get(entry, "error")
      errors == Get(entry, "errors")
  IN IF IsArray(error) /\ Length(error) > 0 THEN ContainerError(At(error, 0))
     ELSE IF IsArray(errors) /\ Length(errors) > 0 THEN ContainerError(At(errors, 0))
     ELSE IF IsObjectLike(error) /\ ~IsArray(error) THEN ContainerError(error)
     ELSE IF IsString(error) THEN ContainerError(error)
     ELSE [msg |-> Str(UnknownApexError),
           details |-> Obj(<< <<"message", Str(UnknownApexError)>> >>)]

\* C24: the record of a failed Aura entry has the message of the chosen
\* error container, and, the entry having no return value, its result is
\* the details of that container; with no container (an empty error array
\* included) these are the generic message and {message: generic message}
C24_ErrorContainerOrder ==
  \A r \in 1..Len(runs) : \A k \in 1..Len(Recs(r)) :
    LET a == Recs(r)[k]
    IN (runs[r].out.shape = "AuraBatch" /\ Get(a.rawResponse, "state") = Str("ERROR")) =>
         /\ a.error = ChosenError(a.rawResponse).msg
         /\ ~IsObjectLike(Get(a.rawResponse, "returnValue")) =>
              a.response = ChosenError(a.rawResponse).details

\* the records of the handled run follow the order of the entries of its
\* actions array
InActionOrder(run) ==
  LET acts == Get(ParseRequest(run.msg.request), "actions")
      places == SelectSeq(Indices(Length(acts)),
                  LAMBDA i : IsObjectLike(acts[2][i]) /\ Get(acts[2][i], "descriptor") = Str(ApexDescriptor))
  IN (run.out.shape = "AuraBatch" /\ IsArray(acts) /\ ~run.out.threw) =>
       /\ Len(run.out.recs) = Len(places)
       /\ \A k \in 1..Len(places) : run.out.recs[k].rawRequest = acts[2][places[k]]

\* C25: the step that handles an envelope handles the one delivered first
\* and appends its records, in the order of their actions, as one block at
\* the end of the log; no other step adds a record, so the blocks of two
\* envelopes are never interleaved
C25_BlocksInDeliveryOrder ==
  [][ IF Len(runs') = Len(runs) + 1
      THEN /\ inbox # <<>> /\ runs'[Len(runs')].msg = Head(inbox)
           /\ actions' = actions \o runs'[Len(runs')].out.recs
           /\ InActionOrder(runs'[Len(runs')])
      ELSE actions' = actions \/ actions' = <<>> ]_vars

\* C25 witness: two boxcars were handled, the one that completed second
\* first, and the log is the two records of the first handled followed by
\* the two records of the second
C25_TwoBlocks ==
  /\ Len(runs) = 2 /\ Len(Recs(1)) = 2 /\ Len(Recs(2)) = 2
  /\ Handled(1).xid = 2 /\ Handled(2).xid = 1
  /\ actions = Recs(1) \o Recs(2)
  /\ Recs(1)[1].fullRequest.xid = 2 /\ Recs(2)[2].fullRequest.xid = 1

\* C26: an Aura exchange whose response did not decode still gives one
\* record, with an empty result, for each request entry whose descriptor is
\* the execute descriptor
C26_RequestOnlyRecords ==
  \A r \in 1..Len(runs) :
    (runs[r].out.shape = "AuraBatch" /\ ParseResponse(Handled(r)) = Null
       /\ IsArray(Get(ParseRequest(Handled(r)), "actions"))) =>
      /\ Len(Recs(r)) = Len(ExecutePlaces(r))
      /\ \A k \in 1..Len(Recs(r)) : Recs(r)[k].response = EmptyObj

\* C27: of every completed exchange at most one envelope is on its way to
\* the handler or was handled
C27_OneEnvelopePerExchange ==
  \A i \in 1..Len(completed) :
    Cardinality({msg \in InFlight : msg.request.xid = i})
      + Cardinality({r \in 1..Len(runs) : Handled(r).xid = i}) <= 1

SharedKeys(a, b) == {k \in STORAGE_KEYS : Has(a, k) /\ Has(b, k)}

\* C29: when two saves of disjoint keys have both returned, and no other save
\* touched their keys, the store holds both changes
C29_NoLostUpdate ==
  \A i, j \in 1..Len(saves) :
    ( /\ i < j
      /\ saves[i].done /\ saves[j].done
      /\ SharedKeys(saves[i].newSettings, saves[j].newSettings) = {}
      /\ \A k \in 1..Len(saves) \ {i, j} :
           /\ SharedKeys(saves[k].newSettings, saves[i].newSettings) = {}
           /\ SharedKeys(saves[k].newSettings, saves[j].newSettings) = {} )
    => \A s \in {i, j} : \A key \in STORAGE_KEYS :
         Has(saves[s].newSettings, key) =>
           Get(storage, key) = Get(saves[s].newSettings, key)

\* no call, callback or event of the settings store is pending
Quiescent == \A c \in Contexts : requests[c] = <<>> /\ deliveries[c] = <<>>

====
